---------------------------- MODULE Spec2Model ----------------------------
(***************************************************************************)
(* A model of the canonical encoding engine of nostr-eth: the tag          *)
(* flattener (flattenDataToTags, in its two versions), the canonicalizer   *)
(* (sortedJSONBytes), the content digest (Log.GenerateUniqueHash) and the  *)
(* compact identifier codec (EncodeEventIDToNevent).                       *)
(*                                                                         *)
(* Go strings and byte slices are sequences of bytes (0..255).  A Go       *)
(* interface{} value is a record tagged with its dynamic type.  A float64  *)
(* is held by its exact decimal expansion (sign, integer digits,           *)
(* fractional digits without trailing zeros), which every finite float64   *)
(* has.                                                                    *)
(***************************************************************************)
EXTENDS Integers, Sequences, FiniteSets, TLC

VARIABLES
    pc,         \* position of the call under way
    input,      \* flatten: the argument ([kind |-> "map", data] or [kind |-> "bytes", b])
    tags,       \* flatten: the returned tag list
    raw,        \* sortedJSONBytes: the argument, a *json.RawMessage
    sorted,     \* sortedJSONBytes: the returned bytes
    prior,      \* sortedJSONBytes: the argument and result of the call before
    log,        \* GenerateUniqueHash: the receiver, a Log
    hash,       \* GenerateUniqueHash: the outcome of the call
    other,      \* GenerateUniqueHash: the receiver and outcome of the call before
    args,       \* EncodeEventIDToNevent: eventID, relayURL, authorPubkey and kind
    nevent,     \* EncodeEventIDToNevent: the returned text and error
    decoded,    \* the fields a reader decodes from the returned text
    userOp,     \* GetHash: the receiver u and the argument chainID
    opHash,     \* GetHash: the outcome of the call
    shared,     \* concurrent calls: the inputs the calls read
    bufs,       \* concurrent calls: the buffers the calls write
    frames,     \* concurrent calls: function, position and result of each call
    callerData, \* the caller's logData map (package log)
    callerLog,  \* the caller's neth.Log (package event)
    invoked,    \* the function called last, with its arguments
    returned,   \* what that call returned
    groupArgs,  \* group identifier: host and groupID
    identifier, \* FormatGroupIdentifier: the returned text
    parsedId,   \* ParseGroupIdentifier: host, groupID and error
    validation, \* ValidateGroupID: the returned error
    opArgs,     \* the arguments of CreateUserOpEvent
    opEvent,    \* the user-operation event at hand and where it came from
    opParsed,   \* the result of ParseUserOpEvent on it
    opUpdate,   \* the last call of UpdateUserOpEvent and the number of calls
    receiver,   \* the *Log MarshalJSON is called on
    depth,      \* the number of MarshalJSON frames on the stack
    outcome,    \* how the outermost call ended
    replyArgs,  \* the arguments of CreateReplyEvent
    reply,      \* the event CreateReplyEvent returned
    chain,      \* the result of GetReplyChainFromEvent on it
    replies,    \* the number of replies made in the thread
    groupEvent, \* the group event at hand and the constructor it came from
    groupParsed, \* the Parse function called on it and its result
    isGroup,    \* the result of IsGroupEvent on it
    groupType,  \* the result of GetEventTypeFromGroupEvent on it
    transferLog, \* the log given to CreateTxTransferEvent
    transfers   \* the results of the calls of CreateTxTransferEvent for it, in order

flattenVars == <<input, tags>>
canonVars == <<raw, sorted, prior>>
hashVars == <<log, hash, other>>
neventVars == <<args, nevent, decoded>>
opVars == <<userOp, opHash>>
concVars == <<shared, bufs, frames>>
txLogVars == <<callerData, callerLog, invoked, returned>>
groupIdVars == <<groupArgs, identifier, parsedId, validation>>
userOpEvVars == <<opArgs, opEvent, opParsed, opUpdate>>
marshalVars == <<receiver, depth, outcome>>
replyVars == <<replyArgs, reply, chain, replies>>
groupEvVars == <<groupEvent, groupParsed, isGroup, groupType>>
transferVars == <<transferLog, transfers>>
vars == <<pc, input, tags, raw, sorted, prior, log, hash, other,
         args, nevent, decoded, userOp, opHash,
         shared, bufs, frames,
         callerData, callerLog, invoked, returned,
         groupArgs, identifier, parsedId, validation,
         opArgs, opEvent, opParsed, opUpdate,
         receiver, depth, outcome,
         replyArgs, reply, chain, replies,
         groupEvent, groupParsed, isGroup, groupType,
         transferLog, transfers>>

\* the value of a variable no call of the specification uses
Unused == [used |-> FALSE]

FlattenUnused == input = Unused /\ tags = Unused
CanonUnused == raw = Unused /\ sorted = Unused /\ prior = Unused
HashUnused == log = Unused /\ hash = Unused /\ other = Unused
NeventUnused == args = Unused /\ nevent = Unused /\ decoded = Unused
OpUnused == userOp = Unused /\ opHash = Unused
ConcUnused == shared = Unused /\ bufs = Unused /\ frames = Unused
TxLogUnused == callerData = Unused /\ callerLog = Unused /\ invoked = Unused /\ returned = Unused
GroupIdUnused == groupArgs = Unused /\ identifier = Unused /\ parsedId = Unused /\ validation = Unused
UserOpEvUnused == opArgs = Unused /\ opEvent = Unused /\ opParsed = Unused /\ opUpdate = Unused
MarshalCallUnused == receiver = Unused /\ depth = Unused /\ outcome = Unused
ReplyUnused == replyArgs = Unused /\ reply = Unused /\ chain = Unused /\ replies = Unused
GroupEvUnused == groupEvent = Unused /\ groupParsed = Unused /\ isGroup = Unused /\ groupType = Unused
TransferUnused == transferLog = Unused /\ transfers = Unused

-----------------------------------------------------------------------------
(* Text constants, as bytes.                                               *)

\* "topic"
StrTopic == <<116, 111, 112, 105, 99>>
\* "from"
StrFrom == <<102, 114, 111, 109>>
\* "meta"
StrMeta == <<109, 101, 116, 97>>
\* "symbol"
StrSymbol == <<115, 121, 109, 98, 111, 108>>
\* "owner"
StrOwner == <<111, 119, 110, 101, 114>>
\* "p"
StrP == <<112>>
\* "TEST"
StrTEST == <<84, 69, 83, 84>>
\* "a"
StrA == <<97>>
\* "b"
StrB == <<98>>
\* "true"
StrTrue == <<116, 114, 117, 101>>
\* "false"
StrFalse == <<102, 97, 108, 115, 101>>
\* "null"
StrNull == <<110, 117, 108, 108>>
\* "<nil>"
StrNil == <<60, 110, 105, 108, 62>>
\* "0x742d35Cc6634C0532925a3b8D4C9db96C4b4d8b6": an address
Addr1 == <<48, 120, 55, 52, 50, 100, 51, 53, 67, 99, 54, 54, 51, 52, 67, 48, 53, 51, 50, 57, 50, 53, 97, 51, 98, 56, 68, 52, 67, 57, 100, 98, 57, 54, 67, 52, 98, 52, 100, 56, 98, 54>>
\* "0x742d35Cc6634C0532925a3b8D4C9db96C4b4d8bg": 42 characters, the last one not hexadecimal
AddrBadChar == <<48, 120, 55, 52, 50, 100, 51, 53, 67, 99, 54, 54, 51, 52, 67, 48, 53, 51, 50, 57, 50, 53, 97, 51, 98, 56, 68, 52, 67, 57, 100, 98, 57, 54, 67, 52, 98, 52, 100, 56, 98, 103>>
\* "0x742d35Cc6634C0532925a3b8D4C9db96C4b4d8b": 41 characters
AddrShort == <<48, 120, 55, 52, 50, 100, 51, 53, 67, 99, 54, 54, 51, 52, 67, 48, 53, 51, 50, 57, 50, 53, 97, 51, 98, 56, 68, 52, 67, 57, 100, 98, 57, 54, 67, 52, 98, 52, 100, 56, 98>>
\* "0X742d35Cc6634C0532925a3b8D4C9db96C4b4d8b6": 42 characters, prefix "0X"
AddrBadPrefix == <<48, 88, 55, 52, 50, 100, 51, 53, 67, 99, 54, 54, 51, 52, 67, 48, 53, 51, 50, 57, 50, 53, 97, 51, 98, 56, 68, 52, 67, 57, 100, 98, 57, 54, 67, 52, 98, 52, 100, 56, 98, 54>>
\* "0xddf252ad1be2c89b69c2b068fc378daa952ba7f163c4a11628f55a4df523b3ef": a 32-byte topic hash
TopicHash == <<48, 120, 100, 100, 102, 50, 53, 50, 97, 100, 49, 98, 101, 50, 99, 56, 57, 98, 54, 57, 99, 50, 98, 48, 54, 56, 102, 99, 51, 55, 56, 100, 97, 97, 57, 53, 50, 98, 97, 55, 102, 49, 54, 51, 99, 52, 97, 49, 49, 54, 50, 56, 102, 53, 53, 97, 52, 100, 102, 53, 50, 51, 98, 51, 101, 102>>

-----------------------------------------------------------------------------
(* Go values of dynamic type (interface{}).                                *)

GoString(s) == [t |-> "string", str |-> s]
GoInt64(i) == [t |-> "int64", int |-> i]
GoInt(i) == [t |-> "int", int |-> i]
GoFloat(neg, ip, fr) == [t |-> "float64", neg |-> neg, ip |-> ip, fr |-> fr]
GoBool(b) == [t |-> "bool", bool |-> b]
GoNil == [t |-> "nil"]
GoMap(m) == [t |-> "map", m |-> m]
GoSlice(s) == [t |-> "slice", s |-> s]
GoUint64(i) == [t |-> "uint64", int |-> i]
\* an int64 too large for the model's integers, b being its sign and digits
GoInt64Big(b) == [t |-> "int64.big", big |-> b]

-----------------------------------------------------------------------------
(* Sequence helpers.                                                       *)

RECURSIVE Flatten(_)
\* the concatenation of a sequence of sequences
Flatten(ss) == IF ss = <<>> THEN <<>> ELSE Head(ss) \o Flatten(Tail(ss))

RECURSIVE Join(_, _)
\* strings.Join
Join(ss, sep) ==
    IF ss = <<>> THEN <<>>
    ELSE IF Len(ss) = 1 THEN ss[1]
    ELSE ss[1] \o sep \o Join(Tail(ss), sep)

RECURSIVE Perms(_)
\* every order in which the elements of a finite set can be visited
Perms(S) ==
    IF S = {} THEN {<<>>}
    ELSE UNION {{<<x>> \o p : p \in Perms(S \ {x})} : x \in S}

\* n times x
Repeat(x, n) == [i \in 1..n |-> x]

\* byte-wise lexicographic order of Go strings (the < of sort.Strings)
StrLess(a, b) ==
    \/ \E i \in 1..Len(a) :
          /\ i <= Len(b)
          /\ a[i] < b[i]
          /\ \A j \in 1..(i - 1) : a[j] = b[j]
    \/ /\ Len(a) < Len(b)
       /\ \A j \in 1..Len(a) : a[j] = b[j]

RECURSIVE SortStrings(_)
\* the elements of a finite set of strings in ascending order
SortStrings(S) ==
    IF S = {} THEN <<>>
    ELSE LET m == CHOOSE x \in S : \A y \in S \ {x} : StrLess(x, y)
         IN  <<m>> \o SortStrings(S \ {m})

-----------------------------------------------------------------------------
(* Number formatting (fmt.Sprintf of %d, %f, %t, %v).                      *)

RECURSIVE Digits(_)
\* the decimal digits of a natural number, most significant first
Digits(n) == IF n < 10 THEN <<n>> ELSE Digits(n \div 10) \o <<n % 10>>

\* the ASCII characters of a digit sequence
DigitBytes(ds) == [i \in 1..Len(ds) |-> 48 + ds[i]]

\* fmt.Sprintf("%d", i)
FormatInt(i) ==
    IF i < 0 THEN <<45>> \o DigitBytes(Digits(0 - i)) ELSE DigitBytes(Digits(i))

\* fmt.Sprintf("%t", b)
FormatBool(b) == IF b THEN StrTrue ELSE StrFalse

\* an int64 too large for the model's integers, by sign and decimal digits
BigInt(neg, digits) == [neg |-> neg, digits |-> digits]

\* math.MaxInt64 = 9223372036854775807 and math.MinInt64 = -9223372036854775808
MaxInt64 == BigInt(FALSE, <<9, 2, 2, 3, 3, 7, 2, 0, 3, 6, 8, 5, 4, 7, 7, 5, 8, 0, 7>>)
MinInt64 == BigInt(TRUE, <<9, 2, 2, 3, 3, 7, 2, 0, 3, 6, 8, 5, 4, 7, 7, 5, 8, 0, 8>>)

\* a < b for naturals written as digit sequences without leading zeros
DigitsLess(a, b) ==
    \/ Len(a) < Len(b)
    \/ /\ Len(a) = Len(b)
       /\ \E i \in 1..Len(a) :
             /\ a[i] < b[i]
             /\ \A j \in 1..(i - 1) : a[j] = b[j]

\* fmt.Sprintf("%d", i) of a BigInt
FormatBigInt(i) == (IF i.neg THEN <<45>> ELSE <<>>) \o DigitBytes(i.digits)

\* the builds whose float-to-integer conversions differ
Platforms == {"amd64", "arm64"}

\* int64(f): truncation toward zero; when the truncated value is not an int64
\* the Go specification leaves the result to the implementation: amd64 gives
\* MinInt64, arm64 saturates
Int64OfFloat(f, platform) ==
    IF (f.neg /\ ~DigitsLess(MinInt64.digits, f.ip))
         \/ (~f.neg /\ ~DigitsLess(MaxInt64.digits, f.ip))
    THEN BigInt(f.neg /\ f.ip # <<0>>, f.ip)
    ELSE IF platform = "arm64" /\ ~f.neg THEN MaxInt64
    ELSE MinInt64

\* float64(i) for the results of Int64OfFloat: a truncated float64 is itself a
\* float64, MaxInt64 rounds to 2^63, MinInt64 is exact
Float64OfInt64(i) ==
    IF i = MaxInt64
    THEN GoFloat(FALSE, MinInt64.digits, <<>>)
    ELSE GoFloat(i.neg, i.digits, <<>>)

\* f == g for float64 (zero compares equal whatever its sign)
FloatEq(f, g) ==
    /\ f.ip = g.ip
    /\ f.fr = g.fr
    /\ (f.neg = g.neg \/ (f.ip = <<0>> /\ f.fr = <<>>))

RECURSIVE IncDigits(_)
\* a digit sequence plus one
IncDigits(ds) ==
    IF ds = <<>> THEN <<1>>
    ELSE IF ds[Len(ds)] < 9
         THEN [ds EXCEPT ![Len(ds)] = @ + 1]
         ELSE IncDigits(SubSeq(ds, 1, Len(ds) - 1)) \o <<0>>

\* fmt.Sprintf("%f", f): six fractional digits, the exact value rounded to
\* nearest, ties to even
FormatFloatF(f) ==
    LET keep == IF Len(f.fr) >= 6 THEN SubSeq(f.fr, 1, 6)
                ELSE f.fr \o Repeat(0, 6 - Len(f.fr))
        rest == IF Len(f.fr) > 6 THEN SubSeq(f.fr, 7, Len(f.fr)) ELSE <<>>
        up   == /\ rest # <<>>
                /\ \/ rest[1] > 5
                   \/ rest[1] = 5 /\ Len(rest) > 1
                   \/ rest = <<5>> /\ keep[6] % 2 = 1
        all  == IF up THEN IncDigits(f.ip \o keep) ELSE f.ip \o keep
    IN  (IF f.neg THEN <<45>> ELSE <<>>)
          \o DigitBytes(SubSeq(all, 1, Len(all) - 6))
          \o <<46>>
          \o DigitBytes(SubSeq(all, Len(all) - 5, Len(all)))

RECURSIVE StripLeadingZeros(_)
StripLeadingZeros(ds) ==
    IF ds # <<>> /\ ds[1] = 0 THEN StripLeadingZeros(Tail(ds)) ELSE ds

RECURSIVE StripTrailingZeros(_)
StripTrailingZeros(ds) ==
    IF ds # <<>> /\ ds[Len(ds)] = 0
    THEN StripTrailingZeros(SubSeq(ds, 1, Len(ds) - 1))
    ELSE ds

\* strconv.FormatFloat(f, fmt, -1, 64), the shortest decimal that reads
\* back as f: exponent form when the decimal exponent is below lo or at least
\* hi, plain decimal otherwise; pad says whether a one-digit exponent is
\* written with a leading zero.  The shortest decimal is taken to be the
\* exact expansion, which holds for expansions of at most 15 digits.
FormatFloatShortest(f, lo, hi, pad) ==
    LET lead == StripLeadingZeros(f.ip \o f.fr)
        sig  == StripTrailingZeros(lead)
        dp   == Len(f.ip) - (Len(f.ip \o f.fr) - Len(lead))
        exp  == dp - 1
        sign == IF f.neg THEN <<45>> ELSE <<>>
        ex   == IF exp < 0 THEN 0 - exp ELSE exp
    IN  IF sig = <<>> THEN sign \o <<48>>
        ELSE IF exp < lo \/ exp >= hi
        THEN sign \o DigitBytes(<<sig[1]>>)
               \o (IF Len(sig) > 1 THEN <<46>> \o DigitBytes(Tail(sig)) ELSE <<>>)
               \o <<101>> \o (IF exp < 0 THEN <<45>> ELSE <<43>>)
               \o (IF pad /\ ex < 10 THEN <<48>> ELSE <<>>) \o DigitBytes(Digits(ex))
        ELSE sign \o DigitBytes(f.ip)
               \o (IF f.fr # <<>> THEN <<46>> \o DigitBytes(f.fr) ELSE <<>>)

\* fmt.Sprintf("%v", f): the 'g' format, %e when the exponent is below -4 or
\* at least 6 (the precision strconv uses for this decision in shortest mode)
FormatFloatV(f) == FormatFloatShortest(f, -4, 6, TRUE)

RECURSIVE FormatV(_)
\* fmt.Sprintf("%v", x): the default text form of a value
FormatV(x) ==
    CASE x.t = "string"  -> x.str
      [] x.t \in {"int64", "int", "uint64"} -> FormatInt(x.int)
      [] x.t = "float64" -> FormatFloatV(x)
      [] x.t = "bool"    -> FormatBool(x.bool)
      [] x.t = "nil"     -> StrNil
      [] x.t = "map"     ->
            LET keys == SortStrings(DOMAIN x.m)
            IN  <<109, 97, 112, 91>>
                  \o Join([i \in 1..Len(keys) |->
                              keys[i] \o <<58>> \o FormatV(x.m[keys[i]])], <<32>>)
                  \o <<93>>
      [] x.t = "slice"   ->
            <<91>> \o Join([i \in 1..Len(x.s) |-> FormatV(x.s[i])], <<32>>) \o <<93>>

-----------------------------------------------------------------------------
(* JSON.  A json.RawMessage is held by its syntax tree; its bytes are the  *)
(* compact text of the tree, object members in the order written.          *)

JStr(s) == [j |-> "string", str |-> s]
JNum(neg, ip, fr) == [j |-> "number", neg |-> neg, ip |-> ip, fr |-> fr]
JBool(b) == [j |-> "bool", bool |-> b]
JNull == [j |-> "null"]
JObj(members) == [j |-> "object", members |-> members]
JArr(items) == [j |-> "array", items |-> items]
\* bytes that are no JSON text
JInvalid(bytes) == [j |-> "invalid", bytes |-> bytes]

\* one character of a string inside a JSON text, as encoding/json writes it:
\* the quote and the backslash escaped, '<', '>' and '&' as \u00XX.  The
\* model's strings hold printable ASCII only.
EscapeChar(c) ==
    CASE c = 34 -> <<92, 34>>
      [] c = 92 -> <<92, 92>>
      [] c = 60 -> <<92, 117, 48, 48, 51, 99>>
      [] c = 62 -> <<92, 117, 48, 48, 51, 101>>
      [] c = 38 -> <<92, 117, 48, 48, 50, 54>>
      [] OTHER  -> <<c>>

\* a JSON string literal
Quote(s) == <<34>> \o Flatten([i \in 1..Len(s) |-> EscapeChar(s[i])]) \o <<34>>

RECURSIVE RawBytes(_)
\* the bytes of a json.RawMessage
RawBytes(doc) ==
    CASE doc.j = "string"  -> Quote(doc.str)
      [] doc.j = "number"  ->
            (IF doc.neg THEN <<45>> ELSE <<>>) \o DigitBytes(doc.ip)
              \o (IF doc.fr # <<>> THEN <<46>> \o DigitBytes(doc.fr) ELSE <<>>)
      [] doc.j = "bool"    -> FormatBool(doc.bool)
      [] doc.j = "null"    -> StrNull
      [] doc.j = "object"  ->
            <<123>>
              \o Join([i \in 1..Len(doc.members) |->
                          Quote(doc.members[i][1]) \o <<58>>
                            \o RawBytes(doc.members[i][2])], <<44>>)
              \o <<125>>
      [] doc.j = "array"   ->
            <<91>> \o Join([i \in 1..Len(doc.items) |-> RawBytes(doc.items[i])], <<44>>)
              \o <<93>>
      [] doc.j = "invalid" -> doc.bytes

\* the float64 nearest to a number text (strconv.ParseFloat): the number
\* texts of the model are float64 values written out exactly, except
\* 9223372036854775807, whose nearest float64 is 2^63
ParseFloat(neg, ip, fr) ==
    IF fr = <<>> /\ ip = MaxInt64.digits
    THEN GoFloat(neg, MinInt64.digits, <<>>)
    ELSE GoFloat(neg, ip, fr)

RECURSIVE Decode(_)
RECURSIVE DecodeObject(_)
\* json.Unmarshal into an interface{}: every number becomes a float64 (the
\* model's numbers are float64 values written out exactly), an object a
\* map[string]interface{}, an array a []interface{}
Decode(doc) ==
    CASE doc.j = "string" -> GoString(doc.str)
      [] doc.j = "number" -> ParseFloat(doc.neg, doc.ip, doc.fr)
      [] doc.j = "bool"   -> GoBool(doc.bool)
      [] doc.j = "null"   -> GoNil
      [] doc.j = "object" -> GoMap(DecodeObject(doc.members))
      [] doc.j = "array"  -> GoSlice([i \in 1..Len(doc.items) |-> Decode(doc.items[i])])

\* the map of an object's members: a key written twice keeps its last value
DecodeObject(members) ==
    LET keys == {members[i][1] : i \in 1..Len(members)}
        last(k) == CHOOSE i \in 1..Len(members) :
                      /\ members[i][1] = k
                      /\ \A n \in (i + 1)..Len(members) : members[n][1] # k
    IN  [k \in keys |-> Decode(members[last(k)][2])]

RECURSIVE IsValid(_)
\* the text is well-formed JSON
IsValid(doc) ==
    CASE doc.j = "invalid" -> FALSE
      [] doc.j = "object"  -> \A i \in 1..Len(doc.members) : IsValid(doc.members[i][2])
      [] doc.j = "array"   -> \A i \in 1..Len(doc.items) : IsValid(doc.items[i])
      [] OTHER             -> TRUE

\* json.Unmarshal(b, &m) with m a map[string]interface{}: an error unless the
\* text is an object or null; null leaves the map nil (empty)
Unmarshal(doc) ==
    IF IsValid(doc) /\ doc.j = "object"
    THEN [err |-> FALSE, m |-> DecodeObject(doc.members)]
    ELSE IF doc.j = "null" THEN [err |-> FALSE, m |-> <<>>]
    ELSE [err |-> TRUE, m |-> <<>>]

RECURSIVE Marshal(_)
\* json.Marshal of a value: map keys in sorted order, floats in their
\* shortest form (exponent form below 1e-6 and from 1e21)
Marshal(x) ==
    CASE x.t = "string"  -> Quote(x.str)
      [] x.t \in {"int64", "int", "uint64"} -> FormatInt(x.int)
      [] x.t = "int64.big" -> FormatBigInt(x.big)
      [] x.t = "float64" -> FormatFloatShortest(x, -6, 21, FALSE)
      [] x.t = "bool"    -> FormatBool(x.bool)
      [] x.t = "nil"     -> StrNull
      [] x.t = "map"     ->
            LET keys == SortStrings(DOMAIN x.m)
            IN  <<123>>
                  \o Join([i \in 1..Len(keys) |->
                              Quote(keys[i]) \o <<58>> \o Marshal(x.m[keys[i]])], <<44>>)
                  \o <<125>>
      [] x.t = "slice"   ->
            <<91>> \o Join([i \in 1..Len(x.s) |-> Marshal(x.s[i])], <<44>>) \o <<93>>

-----------------------------------------------------------------------------
(* The tag flattener.                                                      *)

\* '0'..'9', 'a'..'f', 'A'..'F'
IsHexChar(c) ==
    (c >= 48 /\ c <= 57) \/ (c >= 97 /\ c <= 102) \/ (c >= 65 /\ c <= 70)

\* isEthereumAddress without its loop over the characters after "0x"
isEthereumAddressNoHexCheck(value) ==
    /\ Len(value) = 42
    /\ value[1] = 48 /\ value[2] = 120

\* isEthereumAddress: 42 characters, "0x", then hexadecimal characters only
isEthereumAddress(value) ==
    /\ Len(value) = 42
    /\ value[1] = 48 /\ value[2] = 120
    /\ \A i \in 3..Len(value) : IsHexChar(value[i])

\* the tags of a nested mapping, each name prefixed with the parent key
PrefixTags(key, nestedTags) ==
    LET kept == SelectSeq(nestedTags, LAMBDA tag : Len(tag) >= 2)
    IN  [i \in 1..Len(kept) |-> <<key \o <<95>> \o kept[i][1], kept[i][2]>>]

\* StringTags with the topic rule tried before the address check
StringTagsTopicFirst(key, strValue) ==
    IF key = StrTopic THEN <<<<key, strValue>>>>
    ELSE IF isEthereumAddress(strValue) THEN <<<<StrP, strValue>>>>
    ELSE <<<<key, strValue>>>>

\* a string value: "p" for an address, the key otherwise
StringTags(key, strValue) ==
    IF isEthereumAddress(strValue) THEN <<<<StrP, strValue>>>>
    ELSE IF key = StrTopic THEN <<<<key, strValue>>>>
    ELSE <<<<key, strValue>>>>

\* a sequence value: one tag of the comma-joined elements, none when empty
SliceTags(key, sliceValue) ==
    LET strValues == [i \in 1..Len(sliceValue) |->
                         IF sliceValue[i].t = "string" THEN sliceValue[i].str
                         ELSE FormatV(sliceValue[i])]
    IN  IF Len(strValues) > 0 THEN <<<<key, Join(strValues, <<44>>)>>>> ELSE <<>>

RECURSIVE flattenDataToTags(_)
RECURSIVE EntryTags(_, _)
RECURSIVE FlattenInOrder(_, _)

\* the tag lists one key/value pair of the loop body of flattenDataToTags
\* (package log) can append
EntryTags(key, value) ==
    CASE value.t = "string"  -> {StringTags(key, value.str)}
      [] value.t = "int64"   -> {<<<<key, FormatInt(value.int)>>>>}
      [] value.t = "float64" -> {<<<<key, FormatFloatF(value)>>>>}
      [] value.t = "bool"    -> {<<<<key, FormatBool(value.bool)>>>>}
      [] value.t = "map"     ->
            {PrefixTags(key, nestedTags) : nestedTags \in flattenDataToTags(value.m)}
      [] value.t = "slice"   -> {SliceTags(key, value.s)}
      [] OTHER               -> {<<>>}

\* the loop of flattenDataToTags run over the keys in one iteration order
FlattenInOrder(data, order) ==
    IF order = <<>> THEN {<<>>}
    ELSE {first \o rest : first \in EntryTags(Head(order), data[Head(order)]),
                          rest \in FlattenInOrder(data, Tail(order))}

\* flattenDataToTags of package log (map argument): the set of tag lists it
\* can return, one for every order in which Go may iterate over the maps
flattenDataToTags(data) ==
    UNION {FlattenInOrder(data, order) : order \in Perms(DOMAIN data)}

\* a float64 value in flattenDataToTags of package event: written as an
\* integer when it equals float64(int64(floatValue)), with %f otherwise
FloatTags(key, floatValue, platform) ==
    IF FloatEq(floatValue, Float64OfInt64(Int64OfFloat(floatValue, platform)))
    THEN <<<<key, FormatBigInt(Int64OfFloat(floatValue, platform))>>>>
    ELSE <<<<key, FormatFloatF(floatValue)>>>>

\* the tags one key/value pair of the loop body of flattenDataToTags
\* (package event) appends
EntryTagsBytes(key, value, platform) ==
    CASE value.t = "string"  -> StringTags(key, value.str)
      [] value.t = "int64"   -> <<<<key, FormatInt(value.int)>>>>
      [] value.t = "float64" -> FloatTags(key, value, platform)
      [] value.t = "bool"    -> <<<<key, FormatBool(value.bool)>>>>
      [] OTHER               -> <<>>

\* flattenDataToTags of package event ([]byte argument): no tags when the
\* bytes do not unmarshal into a map, else the tag lists it can return, one
\* for every order in which Go may iterate over the map and every platform
flattenDataToTagsBytes(b) ==
    LET r == Unmarshal(b)
    IN  IF r.err THEN {<<>>}
        ELSE {Flatten([i \in 1..Len(order) |->
                          EntryTagsBytes(order[i], r.m[order[i]], platform)]) :
                 order \in Perms(DOMAIN r.m), platform \in Platforms}

-----------------------------------------------------------------------------
(* The inputs of the flattener.                                            *)

\* the number of keys of a flattened mapping
MaxKeys == 2

Keys == {StrTopic, StrFrom, StrMeta}

StringSamples ==
    {Addr1, AddrBadChar, AddrShort, AddrBadPrefix, TopicHash, StrTEST, <<>>}

\* 18.0, 18.5, 0.0234375 (a tie at the sixth fractional digit), 2^63 and -7.0
Float18 == GoFloat(FALSE, <<1, 8>>, <<>>)
Float18Half == GoFloat(FALSE, <<1, 8>>, <<5>>)
FloatTie == GoFloat(FALSE, <<0>>, <<0, 2, 3, 4, 3, 7, 5>>)
FloatPow63 == GoFloat(FALSE, MinInt64.digits, <<>>)
FloatMinus7 == GoFloat(TRUE, <<7>>, <<>>)
FloatSamples == {Float18, Float18Half, FloatTie, FloatPow63, FloatMinus7}

GoScalars ==
    {GoString(s) : s \in StringSamples}
      \cup FloatSamples
      \cup {GoInt64(0 - 7), GoInt64(18), GoInt(18), GoUint64(7)}
      \cup {GoBool(TRUE), GoBool(FALSE), GoNil}

GoSlices ==
    {GoSlice(<<>>),
     GoSlice(<<GoString(StrA)>>),
     GoSlice(<<GoString(StrA), GoString(StrB)>>),
     GoSlice(<<GoString(StrA), GoInt64(18), Float18Half, GoBool(TRUE), GoNil>>)}

GoNested ==
    {GoMap(<<>>),
     GoMap(StrSymbol :> GoString(StrTEST)),
     GoMap(StrSymbol :> GoString(StrTEST) @@ StrOwner :> GoString(Addr1)),
     GoMap(StrMeta :> GoMap(StrSymbol :> GoInt64(18)))}

GoValues == GoScalars \cup GoSlices \cup GoNested

\* the mappings of at most n keys of K to values of V
MapsOver(K, V, n) ==
    UNION {[ks -> V] : ks \in {S \in SUBSET K : Cardinality(S) <= n}}

JFloat(f) == JNum(f.neg, f.ip, f.fr)

JValues ==
    {JStr(s) : s \in StringSamples}
      \cup {JFloat(f) : f \in FloatSamples}
      \cup {JBool(TRUE), JBool(FALSE), JNull}
      \cup {JArr(<<>>), JArr(<<JStr(StrA), JFloat(Float18)>>)}
      \cup {JObj(<<>>), JObj(<<<<StrSymbol, JStr(StrTEST)>>>>)}

\* the JSON object of a mapping, its members written in the order given
ObjectOf(m, order) == JObj([i \in 1..Len(order) |-> <<order[i], m[order[i]]>>])

\* texts that are no JSON object: null, an array, a string, a cut-off text
NonObjects == {JNull, JArr(<<JStr(StrA)>>), JStr(StrTEST), JInvalid(<<123, 34>>)}

FlattenInputs ==
    {[kind |-> "map", data |-> m] : m \in MapsOver(Keys, GoValues, MaxKeys)}
      \cup {[kind |-> "bytes", b |-> ObjectOf(m, SortStrings(DOMAIN m))] :
               m \in MapsOver(Keys, JValues, MaxKeys)}
      \cup {[kind |-> "bytes", b |-> d] : d \in NonObjects}

-----------------------------------------------------------------------------
(* The flattener as a state machine: a call of either version on an input. *)

FlattenInit ==
    /\ pc = "start"
    /\ input \in FlattenInputs
    /\ tags = <<>>
    /\ CanonUnused /\ HashUnused /\ NeventUnused /\ OpUnused /\ ConcUnused /\ TxLogUnused /\ GroupIdUnused /\ UserOpEvUnused /\ MarshalCallUnused /\ ReplyUnused /\ GroupEvUnused /\ TransferUnused

\* flattenDataToTags(data) of package log
CallFlattenDataToTags ==
    /\ pc = "start"
    /\ input.kind = "map"
    /\ \E result \in flattenDataToTags(input.data) : tags' = result
    /\ pc' = "done"
    /\ UNCHANGED <<input, canonVars, hashVars, neventVars, opVars, concVars, txLogVars, groupIdVars, userOpEvVars, marshalVars, replyVars, groupEvVars, transferVars>>

\* flattenDataToTags(b) of package event
CallFlattenDataToTagsBytes ==
    /\ pc = "start"
    /\ input.kind = "bytes"
    /\ \E result \in flattenDataToTagsBytes(input.b) : tags' = result
    /\ pc' = "done"
    /\ UNCHANGED <<input, canonVars, hashVars, neventVars, opVars, concVars, txLogVars, groupIdVars, userOpEvVars, marshalVars, replyVars, groupEvVars, transferVars>>

FlattenNext == CallFlattenDataToTags \/ CallFlattenDataToTagsBytes

SpecFlatten == FlattenInit /\ [][FlattenNext]_vars

\* the flattener of package log alone
FlattenLogInit == FlattenInit /\ input.kind = "map"

SpecFlattenLog == FlattenLogInit /\ [][CallFlattenDataToTags]_vars

\* the flattener of package event alone
FlattenEventInit == FlattenInit /\ input.kind = "bytes"

SpecFlattenEvent == FlattenEventInit /\ [][CallFlattenDataToTagsBytes]_vars

-----------------------------------------------------------------------------
(* Properties of the flattener.                                            *)

\* the mapping a flatten call works on
InputData == IF input.kind = "map" THEN input.data ELSE Unmarshal(input.b).m

\* the tags returned, as a set
TagSet == {tags[i] : i \in 1..Len(tags)}

\* the tags returned under one name
TagsNamed(name) == {i \in 1..Len(tags) : tags[i][1] = name}

HexChars == (48..57) \cup (97..102) \cup (65..70)

\* "0x" followed by exactly 40 hexadecimal characters
MatchesAddressPattern(s) ==
    /\ Len(s) = 42
    /\ SubSeq(s, 1, 2) = <<48, 120>>
    /\ \A i \in 3..42 : s[i] \in HexChars

IsStringEntry(k) == InputData[k].t = "string"

\* C6: after a flatten call, every string value of the mapping that is "0x"
\* followed by exactly 40 hexadecimal characters has its tag ("p", value),
\* whatever its key, the key "topic" included.
C6_AddressBecomesP ==
    pc = "done" =>
        \A k \in DOMAIN InputData :
            (IsStringEntry(k) /\ MatchesAddressPattern(InputData[k].str))
                => <<StrP, InputData[k].str>> \in TagSet

\* an address stored under "topic" in a JSON payload came out as a "p" tag
C6_Witness ==
    /\ pc = "done"
    /\ input.kind = "bytes"
    /\ StrTopic \in DOMAIN InputData
    /\ InputData[StrTopic] = GoString(Addr1)
    /\ <<StrP, Addr1>> \in TagSet
    /\ TagsNamed(StrTopic) = {}

\* C7: after a flatten call, every string value of the mapping that does not
\* match the address pattern has its tag (key, value), the value unchanged;
\* so a non-address value under "topic" has the tag ("topic", value).
C7_OtherStringKeepsKey ==
    pc = "done" =>
        \A k \in DOMAIN InputData :
            (IsStringEntry(k) /\ ~MatchesAddressPattern(InputData[k].str))
                => <<k, InputData[k].str>> \in TagSet

\* a 42-character value that is no address, under "topic", kept its key
C7_Witness ==
    /\ pc = "done"
    /\ StrTopic \in DOMAIN InputData
    /\ InputData[StrTopic] = GoString(AddrBadChar)
    /\ <<StrTopic, AddrBadChar>> \in TagSet
    /\ TagsNamed(StrP) = {}

\* a digit string, a point, six digits
HasSixFractionDigits(s) ==
    /\ Len(s) >= 8
    /\ s[Len(s) - 6] = 46
    /\ \A i \in (Len(s) - 5)..Len(s) : s[i] \in 48..57

\* C8: after a flatten call, an integer value has the tag (key, decimal
\* string), a floating-point value without a fractional component has the tag
\* (key, integer decimal string without a point), and a floating-point value
\* with a fractional component has a tag with exactly six fractional digits.
C8_NumericRendering ==
    pc = "done" =>
        \A k \in DOMAIN InputData :
            LET value == InputData[k]
            IN  /\ value.t = "int64" => <<k, FormatInt(value.int)>> \in TagSet
                /\ (value.t = "float64" /\ value.fr = <<>>)
                      => <<k, (IF value.neg THEN <<45>> ELSE <<>>)
                                \o DigitBytes(value.ip)>> \in TagSet
                /\ (value.t = "float64" /\ value.fr # <<>>)
                      => \E i \in TagsNamed(k) : HasSixFractionDigits(tags[i][2])

\* the tags of flattening a nested mapping with the flattener under call
NestedTagSets(m) ==
    IF input.kind = "map" THEN flattenDataToTags(m)
    ELSE {Flatten([i \in 1..Len(order) |->
                      EntryTagsBytes(order[i], m[order[i]], platform)]) :
             order \in Perms(DOMAIN m), platform \in Platforms}

\* C9: after a flatten call, for a nested mapping under key K, every tag
\* (name, value) of flattening the nested mapping is returned as
\* (K + "_" + name, value).
C9_NestedPrefix ==
    pc = "done" =>
        \A k \in DOMAIN InputData :
            InputData[k].t = "map" =>
                \A nested \in NestedTagSets(InputData[k].m) :
                    \A i \in 1..Len(nested) :
                        <<k \o <<95>> \o nested[i][1], nested[i][2]>> \in TagSet

\* the elements of a sequence joined by commas, a string as it is, any other
\* element in its default text form
CommaJoined(items) ==
    Join([i \in 1..Len(items) |->
             IF items[i].t = "string" THEN items[i].str ELSE FormatV(items[i])], <<44>>)

\* C10: after a flatten call, a non-empty sequence under key K has exactly one
\* tag, (K, elements joined by commas in order); an empty sequence, a null
\* and a value of unrecognized type have no tag.
C10_SequenceOneTag ==
    pc = "done" =>
        \A k \in DOMAIN InputData :
            LET value == InputData[k]
            IN  /\ (value.t = "slice" /\ value.s # <<>>)
                      => /\ Cardinality(TagsNamed(k)) = 1
                         /\ <<k, CommaJoined(value.s)>> \in TagSet
                /\ ((value.t = "slice" /\ value.s = <<>>)
                        \/ value.t \in {"nil", "uint64"})
                      => TagsNamed(k) = {}

-----------------------------------------------------------------------------
(* The canonical payload serializer and the content digest (package neth).   *)

\* a nil *json.RawMessage
NilData == [j |-> "nil"]

\* sortedJSONBytes writing a colon between a key and its value
sortedJSONBytesWithColon(data) ==
    IF data = NilData THEN <<>>
    ELSE LET u == Unmarshal(data)
             keys == SortStrings(DOMAIN u.m)
         IN  IF u.err THEN RawBytes(data)
             ELSE Flatten([i \in 1..Len(keys) |->
                              Marshal(GoString(keys[i])) \o <<58>>
                                \o Marshal(u.m[keys[i]])])
\* sortedJSONBytes without the sort.Strings(keys) step, the keys taken in the
\* order the text has them
sortedJSONBytesUnsorted(data) ==
    IF data = NilData THEN <<>>
    ELSE LET u == Unmarshal(data)
             keys == IF u.err \/ data.j # "object" THEN <<>>
                     ELSE [i \in 1..Len(data.members) |-> data.members[i][1]]
         IN  IF u.err THEN RawBytes(data)
             ELSE Flatten([i \in 1..Len(keys) |->
                              Marshal(GoString(keys[i])) \o Marshal(u.m[keys[i]])])
\* sortedJSONBytes(data): nil for a nil pointer; the raw text when it does not
\* unmarshal into a map; otherwise, for each key in sort.Strings order, the
\* json.Marshal of the key followed by the json.Marshal of its value
sortedJSONBytes(data) ==
    IF data = NilData THEN <<>>
    ELSE LET u == Unmarshal(data)
             keys == SortStrings(DOMAIN u.m)
         IN  IF u.err THEN RawBytes(data)
             ELSE Flatten([i \in 1..Len(keys) |->
                              Marshal(GoString(keys[i])) \o Marshal(u.m[keys[i]])])

\* a *big.Int that is not negative, by the bytes of its magnitude, most
\* significant first and without leading zeros; and the nil pointer
BigNat(abs) == [nil |-> FALSE, abs |-> abs]
NilBigInt == [nil |-> TRUE, abs |-> <<>>]

\* (*big.Int).Bytes(): the big-endian magnitude
Bytes(x) == x.abs

\* common.LeftPadBytes(slice, l): the slice itself when it has l bytes or more
LeftPadBytes(slice, l) ==
    IF l <= Len(slice) THEN slice ELSE Repeat(0, l - Len(slice)) \o slice

\* the value of a hexadecimal digit, -1 for any other byte
HexDigit(c) ==
    IF c \in 48..57 THEN c - 48
    ELSE IF c \in 97..102 THEN c - 87
    ELSE IF c \in 65..70 THEN c - 55
    ELSE -1

RECURSIVE Hex2Bytes(_)
\* common.Hex2Bytes(str): hex.DecodeString with the error dropped, which
\* leaves the bytes decoded before the first byte that is no digit
Hex2Bytes(str) ==
    IF Len(str) < 2 \/ HexDigit(str[1]) < 0 \/ HexDigit(str[2]) < 0 THEN <<>>
    ELSE <<16 * HexDigit(str[1]) + HexDigit(str[2])>>
            \o Hex2Bytes(SubSeq(str, 3, Len(str)))

\* common.FromHex(s): an optional 0x or 0X is dropped, an odd number of
\* digits gets a leading 0
FromHex(s) ==
    LET has0xPrefix == Len(s) >= 2 /\ s[1] = 48 /\ s[2] \in {120, 88}
        digits == IF has0xPrefix THEN SubSeq(s, 3, Len(s)) ELSE s
    IN  Hex2Bytes(IF Len(digits) % 2 = 1 THEN <<48>> \o digits ELSE digits)

\* crypto.Keccak256Hash(b): the hash is taken to be free of collisions and is
\* written by the bytes it was computed from
Keccak256Hash(b) == [keccak256 |-> b]

\* (common.Hash).Hex(): the 0x text of the 32 bytes, one text per hash
HashHex(h) == [hex |-> h]

\* the bytes GenerateUniqueHash writes to buf, with the reference bytes last
\* in the other order
HashInputChainFirst(t) ==
    LeftPadBytes(Bytes(t.Value), 32)
        \o (IF t.Data # NilData THEN sortedJSONBytes(t.Data) ELSE <<>>)
        \o FromHex(t.ChainID)
        \o FromHex(t.TxHash)
\* the bytes GenerateUniqueHash writes to buf
HashInput(t) ==
    LeftPadBytes(Bytes(t.Value), 32)
        \o (IF t.Data # NilData THEN sortedJSONBytes(t.Data) ELSE <<>>)
        \o FromHex(t.TxHash)
        \o FromHex(t.ChainID)

\* GenerateUniqueHash leaving the chain id out of what it hashes
GenerateUniqueHashNoChainID(t) ==
    IF t.Value.nil THEN [panic |-> TRUE]
    ELSE [panic |-> FALSE,
          hash |-> HashHex(Keccak256Hash(
                      LeftPadBytes(Bytes(t.Value), 32)
                        \o (IF t.Data # NilData THEN sortedJSONBytes(t.Data) ELSE <<>>)
                        \o FromHex(t.TxHash)))]
\* (t *Log) GenerateUniqueHash(): t.Value.Bytes() panics on a nil Value;
\* nothing else fails, and the result is a text
GenerateUniqueHash(t) ==
    IF t.Value.nil THEN [panic |-> TRUE]
    ELSE [panic |-> FALSE, hash |-> HashHex(Keccak256Hash(HashInput(t)))]

-----------------------------------------------------------------------------
(* sortedJSONBytes as a state machine: a call, the payload written again    *)
(* with its keys in another order (or as it was), and a second call.        *)

CanonValues ==
    {JStr(StrTEST), JFloat(Float18), JFloat(FloatTie), JBool(TRUE), JNull,
     JArr(<<JStr(StrA), JFloat(Float18)>>),
     JObj(<<<<StrSymbol, JStr(StrTEST)>>, <<StrOwner, JStr(Addr1)>>>>)}

\* payload texts: objects of distinct keys in every order of writing them,
\* texts that are no object, and no payload at all
CanonInputs ==
    UNION {{ObjectOf(m, order) : order \in Perms(DOMAIN m)} :
              m \in MapsOver(Keys, CanonValues, MaxKeys)}
      \cup NonObjects \cup {NilData}

RECURSIVE Reorderings(_)
\* the texts of the same payload: the members of every object in any order
Reorderings(doc) ==
    IF doc.j # "object" THEN {doc}
    ELSE LET n == Len(doc.members)
             each == [i \in 1..n |-> Reorderings(doc.members[i][2])]
             children == {c \in [1..n -> UNION {each[i] : i \in 1..n}] :
                             \A i \in 1..n : c[i] \in each[i]}
         IN  {JObj([i \in 1..n |-> <<doc.members[p[i]][1], c[p[i]]>>]) :
                 p \in Perms(1..n), c \in children}

NotCalled == [called |-> FALSE]

CanonInit ==
    /\ pc = "start"
    /\ raw \in CanonInputs
    /\ sorted = <<>>
    /\ prior = NotCalled
    /\ FlattenUnused /\ HashUnused /\ NeventUnused /\ OpUnused /\ ConcUnused /\ TxLogUnused /\ GroupIdUnused /\ UserOpEvUnused /\ MarshalCallUnused /\ ReplyUnused /\ GroupEvUnused /\ TransferUnused

CallSortedJSONBytes ==
    /\ pc = "start"
    /\ sorted' = sortedJSONBytes(raw)
    /\ pc' = "done"
    /\ UNCHANGED <<raw, prior, flattenVars, hashVars, neventVars, opVars, concVars, txLogVars, groupIdVars, userOpEvVars, marshalVars, replyVars, groupEvVars, transferVars>>

\* the caller serializes the same payload once more
Reserialize ==
    /\ pc = "done"
    /\ prior = NotCalled
    /\ prior' = [called |-> TRUE, raw |-> raw, sorted |-> sorted]
    /\ raw' \in Reorderings(raw)
    /\ sorted' = <<>>
    /\ pc' = "start"
    /\ UNCHANGED <<flattenVars, hashVars, neventVars, opVars, concVars, txLogVars, groupIdVars, userOpEvVars, marshalVars, replyVars, groupEvVars, transferVars>>

CanonNext == CallSortedJSONBytes \/ Reserialize

SpecCanon == CanonInit /\ [][CanonNext]_vars

\* C2: for a JSON object payload, sortedJSONBytes returns the same bytes
\* whatever the order its keys were written in, and the same bytes on a
\* repeated call
C2_OrderIndependent ==
    (pc = "done" /\ prior.called) => sorted = prior.sorted

\* C2 case: an object of several keys was canonicalized, written again in
\* another order and canonicalized again, to a non-empty result
C2_Witness ==
    /\ pc = "done"
    /\ prior.called
    /\ raw.j = "object"
    /\ Len(raw.members) >= 2
    /\ raw # prior.raw
    /\ sorted # <<>>

-----------------------------------------------------------------------------
(* GenerateUniqueHash as a state machine: a call on one Log, then a call on *)
(* another Log, the first one and its outcome kept for comparison.          *)

Str0x12 == <<48, 120, 49, 50>>
Str0x1234 == <<48, 120, 49, 50, 51, 52>>
Str0x34 == <<48, 120, 51, 52>>
Str1 == <<49>>

\* amounts 0, 1, 2^248, 2^256 - 1 and 2^256, and a Log without a Value
ValueSamples ==
    {BigNat(<<>>), BigNat(<<1>>), BigNat(<<1>> \o Repeat(0, 31)),
     BigNat(Repeat(255, 32)), BigNat(<<1>> \o Repeat(0, 32)), NilBigInt}

DataSamples ==
    {NilData,
     JObj(<<<<StrA, JFloat(Float18)>>>>),
     JObj(<<<<StrB, JStr(StrTEST)>>, <<StrA, JFloat(Float18)>>>>),
     JObj(<<<<StrA, JFloat(Float18)>>, <<StrB, JStr(StrTEST)>>>>),
     JStr(StrTEST)}

TxHashSamples == {<<>>, Str0x12, Str0x1234}

ChainIDSamples == {<<>>, Str0x34, Str1}

\* the fields of a Log that GenerateUniqueHash reads
Logs ==
    [Value : ValueSamples, Data : DataSamples,
     TxHash : TxHashSamples, ChainID : ChainIDSamples]

HashInit ==
    /\ pc = "start"
    /\ log \in Logs
    /\ hash = NotCalled
    /\ other = NotCalled
    /\ FlattenUnused /\ CanonUnused /\ NeventUnused /\ OpUnused /\ ConcUnused /\ TxLogUnused /\ GroupIdUnused /\ UserOpEvUnused /\ MarshalCallUnused /\ ReplyUnused /\ GroupEvUnused /\ TransferUnused

CallGenerateUniqueHash ==
    /\ pc = "start"
    /\ hash' = GenerateUniqueHash(log)
    /\ pc' = "done"
    /\ UNCHANGED <<log, other, flattenVars, canonVars, neventVars, opVars, concVars, txLogVars, groupIdVars, userOpEvVars, marshalVars, replyVars, groupEvVars, transferVars>>

\* the caller turns to another Log
NextLog ==
    /\ pc = "done"
    /\ other = NotCalled
    /\ other' = [called |-> TRUE, log |-> log, hash |-> hash]
    /\ log' \in Logs
    /\ hash' = NotCalled
    /\ pc' = "start"
    /\ UNCHANGED <<flattenVars, canonVars, neventVars, opVars, concVars, txLogVars, groupIdVars, userOpEvVars, marshalVars, replyVars, groupEvVars, transferVars>>

HashNext == CallGenerateUniqueHash \/ NextLog

SpecHash == HashInit /\ [][HashNext]_vars

\* the bytes a returned digest was computed from
Hashed(h) == h.hash.hex.keccak256

\* the composing fields of a digest input: the amount, the canonical payload
\* bytes (none without a payload) and the bytes of the two references
Amount(t) == t.Value.abs
CanonicalPayload(t) == IF t.Data = NilData THEN <<>> ELSE sortedJSONBytes(t.Data)
TxHashBytes(t) == FromHex(t.TxHash)
ChainIDBytes(t) == FromHex(t.ChainID)

FitsWord(t) == ~t.Value.nil /\ Len(Amount(t)) <= 32

BothHashed == pc = "done" /\ other.called /\ ~hash.panic /\ ~other.hash.panic

\* the composing fields in which two digest inputs differ
DifferingFields(t, u) ==
    {f \in {"amount", "payload", "txhash", "chainid"} :
        \/ f = "amount" /\ Amount(t) # Amount(u)
        \/ f = "payload" /\ CanonicalPayload(t) # CanonicalPayload(u)
        \/ f = "txhash" /\ TxHashBytes(t) # TxHashBytes(u)
        \/ f = "chainid" /\ ChainIDBytes(t) # ChainIDBytes(u)}

\* C4 as stated: two inputs that differ in some composing field are hashed
\* from different bytes and get different digests, and identical inputs get
\* identical digests
C4_AnyDifferenceChangesDigest ==
    BothHashed =>
        /\ DifferingFields(log, other.log) # {} =>
              (Hashed(hash) # Hashed(other.hash) /\ hash # other.hash)
        /\ log = other.log => hash = other.hash

\* C4 amended: two inputs that differ in exactly one composing field, the
\* other three being equal, are hashed from different bytes and get different
\* digests, and identical inputs get identical digests
C4_OneFieldChangesDigest ==
    BothHashed =>
        /\ Cardinality(DifferingFields(log, other.log)) = 1 =>
              (Hashed(hash) # Hashed(other.hash) /\ hash # other.hash)
        /\ log = other.log => hash = other.hash

\* C4 case: two digests were computed of inputs whose amounts alone differ,
\* one of them 2^256, with a payload and references present
C4_Witness ==
    /\ BothHashed
    /\ DifferingFields(log, other.log) = {"amount"}
    /\ Len(Amount(log)) > 32
    /\ CanonicalPayload(log) # <<>>
    /\ TxHashBytes(log) # <<>>
    /\ hash # other.hash

\* C5: for an amount of 2^256 or more the digest fails and returns nothing;
\* the amount field of what is hashed is never other than 32 bytes wide
C5_OversizeAmountFails ==
    (pc = "done" /\ ~log.Value.nil /\ Len(Amount(log)) > 32) => hash.panic

-----------------------------------------------------------------------------
(* The nevent encoder (package event) and the bech32 library it calls.      *)

StrNevent == <<110, 101, 118, 101, 110, 116>>

\* the bech32 alphabet qpzry9x8gf2tvdw0s3jn54khce6mua7l
Charset ==
    <<113, 112, 122, 114, 121, 57, 120, 56, 103, 102, 50, 116, 118, 100, 119, 48,
      115, 51, 106, 110, 53, 52, 107, 104, 99, 101, 54, 109, 117, 97, 55, 108>>

\* the bech32 generator 0x3b6a57b2, 0x26508e6d, 0x1ea119fa, 0x3d4233dd, 0x2a1462b3
Generator == <<996825010, 642813549, 513874426, 1027748829, 705979059>>

Pow2(n) == 2 ^ n

RECURSIVE Xor(_, _)
\* a ^ b of two non-negative integers
Xor(a, b) ==
    IF a = 0 THEN b
    ELSE IF b = 0 THEN a
    ELSE 2 * Xor(a \div 2, b \div 2) + ((a + b) % 2)

\* one round of bech32Polymod: chk = (chk & 0x1ffffff) << 5 ^ v, then the
\* generator words of the bits set in the 5 bits shifted out
PolymodStep(chk, v) ==
    LET b == chk \div Pow2(25)
        shifted == Xor((chk % Pow2(25)) * 32, v)
        g(i) == IF (b \div Pow2(i - 1)) % 2 = 1 THEN Generator[i] ELSE 0
    IN  Xor(Xor(Xor(Xor(Xor(shifted, g(1)), g(2)), g(3)), g(4)), g(5))

RECURSIVE PolymodRange(_, _, _, _)
\* the rounds of bech32Polymod for values[i] to values[j]
PolymodRange(chk, values, i, j) ==
    IF chk < 0 \/ i > j THEN chk
    ELSE PolymodRange(PolymodStep(chk, values[i]), values, i + 1, j)

RECURSIVE PolymodFrom(_, _, _)
\* the loop of bech32Polymod from values[i] on, taken 32 values at a time
PolymodFrom(chk, values, i) ==
    IF chk < 0 \/ i > Len(values) THEN chk
    ELSE LET j == IF i + 31 < Len(values) THEN i + 31 ELSE Len(values)
         IN  PolymodFrom(PolymodRange(chk, values, i, j), values, j + 1)

\* bech32Polymod over the expanded prefix and then the values
Polymod(hrp, values) ==
    LET hi == [i \in 1..Len(hrp) |-> hrp[i] \div 32]
        lo == [i \in 1..Len(hrp) |-> hrp[i] % 32]
    IN  PolymodFrom(1, hi \o <<0>> \o lo \o values, 1)

\* bech32Checksum(hrp, data): six 5-bit values
Checksum(hrp, data) ==
    LET mod == Xor(Polymod(hrp, data \o <<0, 0, 0, 0, 0, 0>>), 1)
    IN  [i \in 1..6 |-> (mod \div Pow2(5 * (6 - i))) % 32]

\* bech32.ConvertBits(data, fromBits, toBits, pad): the bits of the groups
\* in a row, cut into groups of toBits; a last group that is not full is
\* filled with zero bits under pad, and otherwise must be short and zero
ConvertBits(data, fromBits, toBits, pad) ==
    LET nbits == Len(data) * fromBits
        bit(i) == IF i > nbits THEN 0
                  ELSE (data[((i - 1) \div fromBits) + 1]
                          \div Pow2(fromBits - 1 - ((i - 1) % fromBits))) % 2
        group(k) == LET from == (k - 1) * toBits
                        RECURSIVE val(_)
                        val(j) == IF j = 0 THEN 0 ELSE 2 * val(j - 1) + bit(from + j)
                    IN  val(toBits)
        full == nbits \div toBits
        rest == nbits % toBits
    IN  IF fromBits < 1 \/ fromBits > 8 \/ toBits < 1 \/ toBits > 8 \/ nbits < 0
        THEN [err |-> TRUE, out |-> <<>>]
        ELSE IF pad
        THEN [err |-> FALSE,
              out |-> [k \in 1..(full + (IF rest > 0 THEN 1 ELSE 0)) |-> group(k)]]
        ELSE IF rest > 0 /\ (rest > 4 \/ group(full + 1) # 0)
        THEN [err |-> TRUE, out |-> <<>>]
        ELSE [err |-> FALSE, out |-> [k \in 1..full |-> group(k)]]

\* bech32.Encode(hrp, data): the prefix, the separator 1, and the characters
\* of the data and the checksum; an error on a value that is no 5-bit value
Bech32Encode(hrp, data) ==
    LET combined == data \o Checksum(hrp, data)
    IN  IF \E i \in 1..Len(data) : data[i] >= 32
        THEN [err |-> TRUE, encoded |-> <<>>]
        ELSE [err |-> FALSE,
              encoded |-> hrp \o <<49>>
                            \o [i \in 1..Len(combined) |-> Charset[combined[i] + 1]]]

\* hexToBytes dropping the error, as hex decoding that stops at the first
\* byte that is no digit
hexToBytesLenient(hex) == [err |-> FALSE, bytes |-> Hex2Bytes(hex)]
\* hexToBytes(hex): an error on an odd length or on a pair that
\* strconv.ParseUint(pair, 16, 8) rejects
hexToBytes(hex) ==
    IF Len(hex) % 2 # 0 \/ \E i \in 1..Len(hex) : HexDigit(hex[i]) < 0
    THEN [err |-> TRUE, bytes |-> <<>>]
    ELSE [err |-> FALSE,
          bytes |-> [i \in 1..(Len(hex) \div 2) |->
                        16 * HexDigit(hex[2 * i - 1]) + HexDigit(hex[2 * i])]]

\* a Go int of 64 bits, by its 8 bytes in two's complement, first the highest
IsPositive(kind) == kind[1] < 128 /\ \E i \in 1..8 : kind[i] # 0

\* binary.BigEndian.PutUint32(kindBytes, uint32(kind)): the low 4 bytes
PutUint32(kind) == SubSeq(kind, 5, 8)

\* one TLV field; byte(len(value)) keeps the low 8 bits of the length
TLV(type, value) == <<type, Len(value) % 256>> \o value

\* the TLV bytes EncodeEventIDToNevent builds from its arguments once the
\* hex texts are decoded
TlvData(eventIDBytes, relayURL, authorBytes, authorPubkey, kind) ==
    TLV(0, eventIDBytes)
      \o (IF relayURL # <<>> THEN TLV(1, relayURL) ELSE <<>>)
      \o (IF authorPubkey # <<>> THEN TLV(2, authorBytes) ELSE <<>>)
      \o (IF IsPositive(kind) THEN TLV(3, PutUint32(kind)) ELSE <<>>)

\* EncodeEventIDToNevent(eventID, relayURL, authorPubkey, kind): the empty
\* text and an error when a hex text, the regrouping or bech32 fails; the
\* local tlvData is kept next to the text that was made of it
EncodeEventIDToNevent(eventID, relayURL, authorPubkey, kind) ==
    LET id == hexToBytes(eventID)
        author == IF authorPubkey # <<>> THEN hexToBytes(authorPubkey)
                  ELSE [err |-> FALSE, bytes |-> <<>>]
        tlvData == TlvData(id.bytes, relayURL, author.bytes, authorPubkey, kind)
        converted == ConvertBits(tlvData, 8, 5, TRUE)
        encoded == Bech32Encode(StrNevent, converted.out)
    IN  IF id.err \/ author.err \/ converted.err \/ encoded.err
        THEN [err |-> TRUE, encoded |-> <<>>, tlvData |-> <<>>]
        ELSE [err |-> FALSE, encoded |-> encoded.encoded, tlvData |-> tlvData]

-----------------------------------------------------------------------------
(* The reader of a compact identifier, the structural inverse of the        *)
(* encoder: prefix and checksum, 5-bit groups back to bytes, TLV fields.     *)

Absent == [present |-> FALSE]
Present(v) == [present |-> TRUE, bytes |-> v]

NoFields ==
    [err |-> FALSE, identity |-> Absent, endpoint |-> Absent,
     authorRef |-> Absent, category |-> Absent]

MalformedRecordError ==
    [err |-> TRUE, identity |-> Absent, endpoint |-> Absent,
     authorRef |-> Absent, category |-> Absent]

\* the 5-bit value of a character of the alphabet in either case, -1 for
\* any other character
CharValue(c) ==
    LET lower == IF c \in 65..90 THEN c + 32 ELSE c
    IN  IF \E v \in 1..32 : Charset[v] = lower
        THEN (CHOOSE v \in 1..32 : Charset[v] = lower) - 1
        ELSE -1

RECURSIVE ParseTLV(_, _, _)
\* the fields of the TLV bytes from position i on, added to those read so
\* far; an unknown type and a field cut short are malformed
ParseTLV(bytes, i, fields) ==
    IF fields.err \/ i > Len(bytes) THEN fields
    ELSE IF i + 1 > Len(bytes) \/ i + 1 + bytes[i + 1] > Len(bytes)
    THEN MalformedRecordError
    ELSE LET value == SubSeq(bytes, i + 2, i + 1 + bytes[i + 1])
             next == i + 2 + bytes[i + 1]
         IN  CASE bytes[i] = 0 ->
                    ParseTLV(bytes, next, [fields EXCEPT !.identity = Present(value)])
               [] bytes[i] = 1 ->
                    ParseTLV(bytes, next, [fields EXCEPT !.endpoint = Present(value)])
               [] bytes[i] = 2 ->
                    ParseTLV(bytes, next, [fields EXCEPT !.authorRef = Present(value)])
               [] bytes[i] = 3 ->
                    ParseTLV(bytes, next, [fields EXCEPT !.category = Present(value)])
               [] OTHER -> MalformedRecordError

\* decode(text): the fields of a compact identifier
DecodeNevent(text) ==
    LET n == Len(StrNevent)
        values == [i \in 1..(Len(text) - n - 1) |-> CharValue(text[n + 1 + i])]
        data == ConvertBits(SubSeq(values, 1, Len(values) - 6), 5, 8, FALSE)
    IN  IF \/ Len(text) < n + 7
           \/ SubSeq(text, 1, n) # StrNevent
           \/ text[n + 1] # 49
           \/ \E i \in 1..Len(values) : values[i] < 0
        THEN MalformedRecordError
        ELSE IF Polymod(StrNevent, values) # 1 \/ data.err
        THEN MalformedRecordError
        ELSE ParseTLV(data.out, 1, NoFields)

-----------------------------------------------------------------------------
(* The encoder as a state machine: a call, and a reader decoding the text.  *)

StrWss == <<119, 115, 115, 58, 47, 47, 114>>

\* hex texts: 32 zero bytes, 32 bytes a1, the same in capitals, one byte, an
\* odd number of digits, a character that is no digit
HexZero32 == Repeat(48, 64)
HexA1 == Flatten(Repeat(<<97, 49>>, 32))
HexUpperA1 == Flatten(Repeat(<<65, 49>>, 32))
HexOneByte == <<48, 48>>
HexOdd == <<97, 98, 99>>
HexBad == <<48, 103>>

\* the Go int n, for 0 <= n < 2^31, and the ints 2^32 and -1
GoIntOf(n) ==
    <<0, 0, 0, 0, n \div Pow2(24), (n \div Pow2(16)) % 256, (n \div 256) % 256, n % 256>>
IntPow32 == <<0, 0, 0, 1, 0, 0, 0, 0>>
IntMinus1 == Repeat(255, 8)

\* an endpoint of n bytes
EndpointOfLen(n) == StrWss \o Repeat(97, n - Len(StrWss))

NeventArgs ==
    [eventID : {HexZero32, HexA1, HexOneByte, HexOdd, HexBad},
     relayURL : {<<>>, StrWss},
     authorPubkey : {<<>>, HexA1, HexUpperA1, HexBad},
     kind : {GoIntOf(0), GoIntOf(1), GoIntOf(30000), IntPow32, IntMinus1}]
      \cup [eventID : {HexZero32},
            relayURL : {EndpointOfLen(255), EndpointOfLen(256)},
            authorPubkey : {<<>>, HexA1},
            kind : {GoIntOf(0), GoIntOf(1)}]

NeventInit ==
    /\ pc = "start"
    /\ args \in NeventArgs
    /\ nevent = NotCalled
    /\ decoded = NotCalled
    /\ FlattenUnused /\ CanonUnused /\ HashUnused /\ OpUnused /\ ConcUnused /\ TxLogUnused /\ GroupIdUnused /\ UserOpEvUnused /\ MarshalCallUnused /\ ReplyUnused /\ GroupEvUnused /\ TransferUnused

CallEncodeEventIDToNevent ==
    /\ pc = "start"
    /\ nevent' = EncodeEventIDToNevent(args.eventID, args.relayURL,
                                       args.authorPubkey, args.kind)
    /\ pc' = "encoded"
    /\ UNCHANGED <<args, decoded, flattenVars, canonVars, hashVars, opVars, concVars, txLogVars, groupIdVars, userOpEvVars, marshalVars, replyVars, groupEvVars, transferVars>>

\* a reader decodes the text that was returned
ReadNevent ==
    /\ pc = "encoded"
    /\ ~nevent.err
    /\ decoded' = DecodeNevent(nevent.encoded)
    /\ pc' = "decoded"
    /\ UNCHANGED <<args, nevent, flattenVars, canonVars, hashVars, opVars, concVars, txLogVars, groupIdVars, userOpEvVars, marshalVars, replyVars, groupEvVars, transferVars>>

NeventNext == CallEncodeEventIDToNevent \/ ReadNevent

SpecNevent == NeventInit /\ [][NeventNext]_vars

\* a valid combination: an identity of 32 bytes in hex, any endpoint, an
\* author reference that is empty or hex, a category from 0 that fits the
\* 4 bytes of its field
ValidArgs ==
    /\ ~hexToBytes(args.eventID).err
    /\ Len(hexToBytes(args.eventID).bytes) = 32
    /\ ~hexToBytes(args.authorPubkey).err
    /\ SubSeq(args.kind, 1, 4) = <<0, 0, 0, 0>>

\* an optional field as the reader must give it back
Expected(given, bytes) == IF given THEN Present(bytes) ELSE Absent

\* C1: for every valid combination of identity, endpoint, author reference
\* and category the encoder returns a text, and decoding that text gives the
\* same identity, endpoint, author reference and category, an absent
\* optional field being decoded as absent
C1_RoundTrip ==
    /\ (pc = "encoded" /\ ValidArgs) => ~nevent.err
    /\ (pc = "decoded" /\ ValidArgs) =>
          /\ ~decoded.err
          /\ decoded.identity = Present(hexToBytes(args.eventID).bytes)
          /\ decoded.endpoint = Expected(args.relayURL # <<>>, args.relayURL)
          /\ decoded.authorRef = Expected(args.authorPubkey # <<>>,
                                          hexToBytes(args.authorPubkey).bytes)
          /\ decoded.category = Expected(args.kind # GoIntOf(0),
                                         SubSeq(args.kind, 5, 8))

\* the round trip of C1 for endpoints and author references of less than
\* 256 bytes
C1_RoundTripShort ==
    (Len(args.relayURL) < 256 /\ Len(args.authorPubkey) < 512) => C1_RoundTrip

-----------------------------------------------------------------------------
(* The TLV bytes of the encoder.                                            *)

\* the encoder has returned a text
Encoded == pc \in {"encoded", "decoded"} /\ ~nevent.err

\* the category is greater than 0
CategoryPositive == args.kind[1] < 128 /\ args.kind # GoIntOf(0)

\* the fields the arguments call for, in the order 0, 1, 2, 3, the category
\* by the 4 bytes written for it
ExpectedFields ==
    <<[type |-> 0, value |-> hexToBytes(args.eventID).bytes]>>
      \o (IF args.relayURL # <<>>
          THEN <<[type |-> 1, value |-> args.relayURL]>> ELSE <<>>)
      \o (IF args.authorPubkey # <<>>
          THEN <<[type |-> 2, value |-> hexToBytes(args.authorPubkey).bytes]>>
          ELSE <<>>)
      \o (IF CategoryPositive
          THEN <<[type |-> 3, value |-> SubSeq(args.kind, 5, 8)]>> ELSE <<>>)

RECURSIVE FieldOffset(_, _)
\* the number of bytes that the fields before field k take, each with one
\* byte of type and one of length
FieldOffset(fields, k) ==
    IF k <= 1 THEN 0
    ELSE FieldOffset(fields, k - 1) + 2 + Len(fields[k - 1].value)

\* C11: the TLV bytes are the fields in the order 0, 1, 2, 3: type 0 always,
\* type 1 exactly for a non-empty endpoint, type 2 exactly for a non-empty
\* author reference, type 3 exactly for a category above 0, whose 4 bytes
\* are then the category in big-endian form
C11_FieldOrder ==
    (Encoded /\ Len(hexToBytes(args.eventID).bytes) = 32) =>
        LET fields == ExpectedFields
            tlv == nevent.tlvData
        IN  /\ Len(tlv) = FieldOffset(fields, Len(fields) + 1)
            /\ \A k \in 1..Len(fields) :
                  LET off == FieldOffset(fields, k)
                  IN  /\ tlv[off + 1] = fields[k].type
                      /\ SubSeq(tlv, off + 3, off + 2 + Len(fields[k].value))
                            = fields[k].value
            /\ CategoryPositive =>
                  <<0, 0, 0, 0>> \o fields[Len(fields)].value = args.kind

\* C11 without its last part: the fields are there in the order 0, 1, 2, 3,
\* each exactly when its argument calls for it
C11_OrderAndPresence ==
    Encoded =>
        LET fields == ExpectedFields
            tlv == nevent.tlvData
        IN  /\ Len(tlv) = FieldOffset(fields, Len(fields) + 1)
            /\ \A k \in 1..Len(fields) :
                  LET off == FieldOffset(fields, k)
                  IN  /\ tlv[off + 1] = fields[k].type
                      /\ SubSeq(tlv, off + 3, off + 2 + Len(fields[k].value))
                            = fields[k].value

\* C12: the length byte of every field of the TLV bytes is the number of
\* value bytes that follow it, whatever the length of the endpoint and of
\* the author reference
C12_LengthByte ==
    Encoded =>
        \A k \in 1..Len(ExpectedFields) :
            nevent.tlvData[FieldOffset(ExpectedFields, k) + 2]
                = Len(ExpectedFields[k].value)

\* C13: a text that was returned has as its first field one of type 0 and
\* length byte 32 with an identity of 32 bytes; no identity of another
\* length is encoded
C13_IdentityLength ==
    Encoded =>
        /\ nevent.tlvData[1] = 0
        /\ nevent.tlvData[2] = 32
        /\ Len(hexToBytes(args.eventID).bytes) = 32

\* a hex text that is malformed: an odd number of characters, or a character
\* that is no hexadecimal digit
MalformedHex(h) == Len(h) % 2 = 1 \/ \E i \in 1..Len(h) : h[i] \notin HexChars

\* C14: when the identity, or an author reference that is not empty, is
\* malformed hex, the encoder returns an error and the empty text
C14_MalformedHexFails ==
    (pc \in {"encoded", "decoded"}
       /\ (MalformedHex(args.eventID) \/ MalformedHex(args.authorPubkey))) =>
        nevent.err /\ nevent.encoded = <<>>

\* C14 case: the encoder was called with an identity of 32 bytes and an
\* author reference with a character that is no digit, after an endpoint
\* and before a category that call for fields, and has returned
C14_Witness ==
    /\ pc = "encoded"
    /\ ~MalformedHex(args.eventID)
    /\ Len(args.eventID) = 64
    /\ args.relayURL # <<>>
    /\ CategoryPositive
    /\ MalformedHex(args.authorPubkey)
    /\ Len(args.authorPubkey) % 2 = 0
    /\ nevent.err
    /\ nevent.encoded = <<>>

-----------------------------------------------------------------------------
(* The operation hash (package neth): UserOp.GetHash.                       *)

\* (x *big.Int).FillBytes(buf) with a buf of n bytes panics on a nil x and
\* on a magnitude of more than n bytes
FillBytesPanics(x, n) == x.nil \/ Len(x.abs) > n

\* (x *big.Int).FillBytes(buf): the magnitude at the end of the zeroed buf
FillBytes(x, n) == Repeat(0, n - Len(x.abs)) \o x.abs

\* GetHash over the call data as well as chainID, sender and nonce
GetHashWithCallData(u, chainID) ==
    IF FillBytesPanics(chainID, 32) \/ FillBytesPanics(u.Nonce, 32)
    THEN [panic |-> TRUE]
    ELSE [panic |-> FALSE,
          hash |-> HashHex(Keccak256Hash(
                      FillBytes(chainID, 32)
                        \o Repeat(0, 12) \o u.Sender
                        \o FillBytes(u.Nonce, 32) \o u.CallData))]

\* (u *UserOp) GetHash(chainID): the hash of chainID on 32 bytes, the sender
\* in the last 20 of 32 bytes, and the nonce on 32 bytes
GetHash(u, chainID) ==
    IF FillBytesPanics(chainID, 32) \/ FillBytesPanics(u.Nonce, 32)
    THEN [panic |-> TRUE]
    ELSE [panic |-> FALSE,
          hash |-> HashHex(Keccak256Hash(
                      FillBytes(chainID, 32)
                        \o Repeat(0, 12) \o u.Sender
                        \o FillBytes(u.Nonce, 32)))]

\* calls of GetHash: a sender of 20 bytes, a nonce that is 0, 1, 2^248,
\* 2^256 - 1, 2^256 or, after UnmarshalJSON of a text without a nonce, nil,
\* and a chain id that is 0, 1, 2^256 - 1 or 2^256
GetHashCalls ==
    [u : [Sender : {Repeat(0, 20), FromHex(Addr1), Repeat(255, 20)},
          Nonce : ValueSamples],
     chainID : {BigNat(<<>>), BigNat(<<1>>), BigNat(Repeat(255, 32)),
                BigNat(<<1>> \o Repeat(0, 32))}]

GetHashInit ==
    /\ pc = "start"
    /\ userOp \in GetHashCalls
    /\ opHash = NotCalled
    /\ FlattenUnused /\ CanonUnused /\ HashUnused /\ NeventUnused /\ ConcUnused /\ TxLogUnused /\ GroupIdUnused /\ UserOpEvUnused /\ MarshalCallUnused /\ ReplyUnused /\ GroupEvUnused /\ TransferUnused

CallGetHash ==
    /\ pc = "start"
    /\ opHash' = GetHash(userOp.u, userOp.chainID)
    /\ pc' = "done"
    /\ UNCHANGED <<userOp, flattenVars, canonVars, hashVars, neventVars, concVars, txLogVars, groupIdVars, userOpEvVars, marshalVars, replyVars, groupEvVars, transferVars>>

SpecGetHash == GetHashInit /\ [][CallGetHash]_vars

\* an integer that does not fit in 32 bytes
Overflows(x) == ~x.nil /\ Len(x.abs) > 32

\* C15: the operation hash is taken of 96 bytes, the chain id on 32
\* big-endian bytes, 12 zero bytes and the 20 sender bytes, the nonce on 32
\* big-endian bytes; the call fails only for a chain id or a nonce that does
\* not fit in 32 bytes
C15_OperationHash ==
    pc = "done" =>
        /\ opHash.panic => (Overflows(userOp.chainID) \/ Overflows(userOp.u.Nonce))
        /\ ~opHash.panic =>
              /\ Len(Hashed(opHash)) = 96
              /\ SubSeq(Hashed(opHash), 1, 32)
                    = Repeat(0, 32 - Len(userOp.chainID.abs)) \o userOp.chainID.abs
              /\ SubSeq(Hashed(opHash), 33, 44) = Repeat(0, 12)
              /\ SubSeq(Hashed(opHash), 45, 64) = userOp.u.Sender
              /\ SubSeq(Hashed(opHash), 65, 96)
                    = Repeat(0, 32 - Len(userOp.u.Nonce.abs)) \o userOp.u.Nonce.abs

\* the statement of C15 for a nonce and a chain id that are not nil
C15_OperationHashNotNil ==
    (~userOp.u.Nonce.nil /\ ~userOp.chainID.nil) => C15_OperationHash

-----------------------------------------------------------------------------
(* The canonical form.                                                      *)

\* the value an object text gives to a key
MemberValue(doc, k) ==
    doc.members[CHOOSE i \in 1..Len(doc.members) : doc.members[i][1] = k][2]

\* C16: for a JSON object payload the canonical bytes are, for the keys in
\* ascending byte-wise order, the JSON text of the key and right after it the
\* JSON text of its value, and nothing else; no payload gives no bytes
C16_CanonicalForm ==
    pc = "done" =>
        /\ raw = NilData => sorted = <<>>
        /\ raw.j = "object" =>
              \E ks \in Perms({raw.members[i][1] : i \in 1..Len(raw.members)}) :
                  /\ \A i \in 1..Len(ks) : \A n \in (i + 1)..Len(ks) :
                        StrLess(ks[i], ks[n])
                  /\ sorted = Flatten([i \in 1..Len(ks) |->
                                Quote(ks[i])
                                  \o Marshal(Decode(MemberValue(raw, ks[i])))])

\* C16 case: an object that has its keys in descending order, one of them
\* with an object as its value, was canonicalized
C16_Witness ==
    /\ pc = "done"
    /\ raw.j = "object"
    /\ Len(raw.members) = 2
    /\ StrLess(raw.members[2][1], raw.members[1][1])
    /\ raw.members[1][2].j = "object"
    /\ sorted # <<>>

-----------------------------------------------------------------------------
(* Concurrent calls of sortedJSONBytes, GenerateUniqueHash, GetHash,        *)
(* flattenDataToTags and EncodeEventIDToNevent on the same inputs. A call   *)
(* makes its buffer, appends to it piece by piece and returns; the calls    *)
(* take their steps in any order.                                           *)

NumCalls == 2

Calls == 1..NumCalls

FunctionList ==
    <<"sortedJSONBytes", "GenerateUniqueHash", "GetHash", "flattenDataToTags",
      "EncodeEventIDToNevent">>

Functions == {FunctionList[i] : i \in 1..Len(FunctionList)}

\* the payload bytes handed to flattenDataToTags: those of the log, an empty
\* slice for a log without data
Payload(in) == IF in.log.Data = NilData THEN JInvalid(<<>>) ELSE in.log.Data

\* one buffer for all calls, as a package-level variable would be
BufShared(c) == 1
\* the buffer of a call: buf := new(bytes.Buffer), var buf bytes.Buffer,
\* packed := make([]byte, 0, 96) and var tlvData []byte are locals
BufOf(c) == c

\* the pieces a call appends to its buffer, in the order of the appends
Writes(fn, in) ==
    CASE fn = "sortedJSONBytes" ->
            LET u == IF in.log.Data = NilData THEN [err |-> TRUE, m |-> <<>>]
                     ELSE Unmarshal(in.log.Data)
                keys == SortStrings(DOMAIN u.m)
            IN  IF u.err THEN <<>>
                ELSE [i \in 1..Len(keys) |->
                         Marshal(GoString(keys[i])) \o Marshal(u.m[keys[i]])]
      [] fn = "GenerateUniqueHash" ->
            IF in.log.Value.nil THEN <<>>
            ELSE <<LeftPadBytes(Bytes(in.log.Value), 32)>>
                   \o (IF in.log.Data # NilData
                       THEN <<sortedJSONBytes(in.log.Data)>> ELSE <<>>)
                   \o <<FromHex(in.log.TxHash), FromHex(in.log.ChainID)>>
      [] fn = "GetHash" ->
            IF FillBytesPanics(in.chainID, 32) \/ FillBytesPanics(in.u.Nonce, 32)
            THEN <<>>
            ELSE <<FillBytes(in.chainID, 32), Repeat(0, 12) \o in.u.Sender,
                   FillBytes(in.u.Nonce, 32)>>
      [] fn = "flattenDataToTags" -> <<>>
      [] fn = "EncodeEventIDToNevent" ->
            LET id == hexToBytes(in.args.eventID)
                author == hexToBytes(in.args.authorPubkey)
            IN  IF id.err \/ author.err THEN <<>>
                ELSE <<TLV(0, id.bytes)>>
                       \o (IF in.args.relayURL # <<>>
                           THEN <<TLV(1, in.args.relayURL)>> ELSE <<>>)
                       \o (IF in.args.authorPubkey # <<>>
                           THEN <<TLV(2, author.bytes)>> ELSE <<>>)
                       \o (IF IsPositive(in.args.kind)
                           THEN <<TLV(3, PutUint32(in.args.kind))>> ELSE <<>>)

\* what a call can return once its appends are done, buf being what its
\* buffer holds then
Results(fn, in, buf) ==
    CASE fn = "sortedJSONBytes" ->
            IF in.log.Data = NilData THEN {<<>>}
            ELSE IF Unmarshal(in.log.Data).err THEN {RawBytes(in.log.Data)}
            ELSE {buf}
      [] fn = "GenerateUniqueHash" ->
            IF in.log.Value.nil THEN {[panic |-> TRUE]}
            ELSE {[panic |-> FALSE, hash |-> HashHex(Keccak256Hash(buf))]}
      [] fn = "GetHash" ->
            IF FillBytesPanics(in.chainID, 32) \/ FillBytesPanics(in.u.Nonce, 32)
            THEN {[panic |-> TRUE]}
            ELSE {[panic |-> FALSE, hash |-> HashHex(Keccak256Hash(buf))]}
      [] fn = "flattenDataToTags" -> flattenDataToTagsBytes(Payload(in))
      [] fn = "EncodeEventIDToNevent" ->
            LET converted == ConvertBits(buf, 8, 5, TRUE)
                encoded == Bech32Encode(StrNevent, converted.out)
            IN  IF \/ hexToBytes(in.args.eventID).err
                   \/ hexToBytes(in.args.authorPubkey).err
                   \/ converted.err \/ encoded.err
                THEN {[err |-> TRUE, encoded |-> <<>>, tlvData |-> <<>>]}
                ELSE {[err |-> FALSE, encoded |-> encoded.encoded, tlvData |-> buf]}

\* the inputs the calls share: a log with its payload, a user operation
\* with a chain id, and the arguments of the encoder
SharedInputs ==
    [log : [Value : {BigNat(<<1>>)},
            Data : {NilData,
                    JObj(<<<<StrB, JStr(StrTEST)>>, <<StrA, JFloat(Float18)>>>>)},
            TxHash : {Str0x12}, ChainID : {Str1}],
     u : [Sender : {FromHex(Addr1)}, Nonce : {BigNat(<<1>>)}],
     chainID : {BigNat(<<1>>)},
     args : [eventID : {HexA1}, relayURL : {StrWss},
             authorPubkey : {HexA1}, kind : {GoIntOf(1)}]]

ConcInit ==
    /\ pc = "start"
    /\ shared \in SharedInputs
    /\ bufs = [c \in Calls |-> <<>>]
    /\ \E fns \in [Calls -> 1..Len(FunctionList)] :
          \* calls are alike: they are numbered in the order of their functions
          /\ \A c \in Calls : \A d \in Calls : c < d => fns[c] <= fns[d]
          /\ frames = [c \in Calls |->
                          [fn |-> FunctionList[fns[c]], at |-> 0, done |-> FALSE,
                           result |-> NotCalled]]
    /\ FlattenUnused /\ CanonUnused /\ HashUnused /\ NeventUnused /\ OpUnused /\ TxLogUnused /\ GroupIdUnused /\ UserOpEvUnused /\ MarshalCallUnused /\ ReplyUnused /\ GroupEvUnused /\ TransferUnused

\* the call makes its buffer
Begin(c) ==
    /\ ~frames[c].done
    /\ frames[c].at = 0
    /\ bufs' = [bufs EXCEPT ![BufOf(c)] = <<>>]
    /\ frames' = [frames EXCEPT ![c].at = 1]
    /\ UNCHANGED <<pc, shared, flattenVars, canonVars, hashVars, neventVars, opVars, txLogVars, groupIdVars, userOpEvVars, marshalVars, replyVars, groupEvVars, transferVars>>

\* the call appends its next piece
Write(c) ==
    /\ ~frames[c].done
    /\ frames[c].at \in 1..Len(Writes(frames[c].fn, shared))
    /\ bufs' = [bufs EXCEPT ![BufOf(c)] =
                   @ \o Writes(frames[c].fn, shared)[frames[c].at]]
    /\ frames' = [frames EXCEPT ![c].at = @ + 1]
    /\ UNCHANGED <<pc, shared, flattenVars, canonVars, hashVars, neventVars, opVars, txLogVars, groupIdVars, userOpEvVars, marshalVars, replyVars, groupEvVars, transferVars>>

\* the call returns
Return(c) ==
    /\ ~frames[c].done
    /\ frames[c].at = Len(Writes(frames[c].fn, shared)) + 1
    /\ \E r \in Results(frames[c].fn, shared, bufs[BufOf(c)]) :
          frames' = [frames EXCEPT ![c].done = TRUE, ![c].result = r]
    /\ UNCHANGED <<pc, shared, bufs, flattenVars, canonVars, hashVars, neventVars,
                   opVars, txLogVars, groupIdVars, userOpEvVars, marshalVars, replyVars, groupEvVars, transferVars>>

ConcNext == \E c \in Calls : Begin(c) \/ Write(c) \/ Return(c)

SpecConcurrent == ConcInit /\ [][ConcNext]_vars

\* what a call returns when it runs alone
RunAlone(fn, in) ==
    CASE fn = "sortedJSONBytes" -> {sortedJSONBytes(in.log.Data)}
      [] fn = "GenerateUniqueHash" -> {GenerateUniqueHash(in.log)}
      [] fn = "GetHash" -> {GetHash(in.u, in.chainID)}
      [] fn = "flattenDataToTags" -> flattenDataToTagsBytes(Payload(in))
      [] fn = "EncodeEventIDToNevent" ->
            {EncodeEventIDToNevent(in.args.eventID, in.args.relayURL,
                                   in.args.authorPubkey, in.args.kind)}

\* C17: whatever the order of the steps of concurrent calls, a call returns
\* what it returns when it runs alone, and no step of a call changes the
\* inputs (payload bytes, log, user operation, arguments)
C17_CallsIsolated ==
    /\ [](\A c \in Calls :
            frames[c].done => frames[c].result \in RunAlone(frames[c].fn, shared))
    /\ [][shared' = shared]_vars

\* C17 case: a call of GenerateUniqueHash has returned a digest while a call
\* of another function is between two of its appends
C17_Witness ==
    \E c \in Calls : \E d \in Calls \ {c} :
        /\ frames[c].done
        /\ frames[c].fn = "GenerateUniqueHash"
        /\ ~frames[c].result.panic
        /\ ~frames[d].done
        /\ frames[d].fn \in Functions \ {"GenerateUniqueHash", "flattenDataToTags"}
        /\ frames[d].at = 2
        /\ frames[d].at <= Len(Writes(frames[d].fn, shared))
        /\ bufs[d] # <<>>

-----------------------------------------------------------------------------
(* Transaction-log events: CreateTxLogEvent, UpdateTxLogEvent and          *)
(* UpdateLogStatusEvent of package log (the log is a map) and              *)
(* CreateTxLogEvent and UpdateTxLogEvent of package event (the log is a    *)
(* neth.Log).                                                             *)

\* "d"
StrD == <<100>>
\* "t"
StrT == <<116>>
\* "r"
StrR == <<114>>
\* "e"
StrE == <<101>>
\* "reply"
StrReply == <<114, 101, 112, 108, 121>>
\* "tx_log"
StrTxLog == <<116, 120, 95, 108, 111, 103>>
\* "ethereum"
StrEthereum == <<101, 116, 104, 101, 114, 101, 117, 109>>
\* "update"
StrUpdate == <<117, 112, 100, 97, 116, 101>>
\* "amount"
StrAmount == <<97, 109, 111, 117, 110, 116>>
\* "timestamp"
StrTimestamp == <<116, 105, 109, 101, 115, 116, 97, 109, 112>>
\* "hash"
StrHash == <<104, 97, 115, 104>>
\* "chain_id"
StrChainId == <<99, 104, 97, 105, 110, 95, 105, 100>>
\* "status"
StrStatus == <<115, 116, 97, 116, 117, 115>>
\* "tx_hash"
StrTxHash == <<116, 120, 95, 104, 97, 115, 104>>
\* "sender"
StrSender == <<115, 101, 110, 100, 101, 114>>
\* "to"
StrTo == <<116, 111>>
\* "value"
StrValue == <<118, 97, 108, 117, 101>>
\* "created_at"
StrCreatedAt == <<99, 114, 101, 97, 116, 101, 100, 95, 97, 116>>
\* "updated_at"
StrUpdatedAt == <<117, 112, 100, 97, 116, 101, 100, 95, 97, 116>>
\* "nonce"
StrNonce == <<110, 111, 110, 99, 101>>
\* "data"
StrData == <<100, 97, 116, 97>>
\* "log_data"
StrLogData == <<108, 111, 103, 95, 100, 97, 116, 97>>
\* "event_type"
StrEventType == <<101, 118, 101, 110, 116, 95, 116, 121, 112, 101>>
\* "tags"
StrTags == <<116, 97, 103, 115>>
\* "tx_log_created"
EventTypeTxLogCreated == <<116, 120, 95, 108, 111, 103, 95, 99, 114, 101, 97, 116, 101, 100>>
\* "tx_log_updated"
EventTypeTxLogUpdated == <<116, 120, 95, 108, 111, 103, 95, 117, 112, 100, 97, 116, 101, 100>>
\* "pending"
StrPending == <<112, 101, 110, 100, 105, 110, 103>>
\* "confirmed"
StrConfirmed == <<99, 111, 110, 102, 105, 114, 109, 101, 100>>
\* "0"
Str0 == <<48>>
\* "5"
Str5 == <<53>>
\* "<nil>"
StrNilBig == <<60, 110, 105, 108, 62>>
\* "ev1"
StrEventId == <<101, 118, 49>>
\* "1970-01-01T00:00:01Z"
StrEpoch1 == <<49, 57, 55, 48, 45, 48, 49, 45, 48, 49, 84, 48, 48, 58, 48, 48, 58, 48, 49, 90>>

\* Custom kind for transaction logs
KindTxLog == 30000

RECURSIVE ToJSON(_)
\* the JSON text json.Marshal writes for a value, as its syntax tree: the
\* keys of a map in sorted order, an integer as a number without fraction
ToJSON(x) ==
    CASE x.t = "string"  -> JStr(x.str)
      [] x.t \in {"int64", "int", "uint64"} ->
            JNum(x.int < 0, Digits(IF x.int < 0 THEN 0 - x.int ELSE x.int), <<>>)
      [] x.t = "int64.big" -> JNum(x.big.neg, x.big.digits, <<>>)
      [] x.t = "float64" -> JNum(x.neg, x.ip, x.fr)
      [] x.t = "bool"    -> JBool(x.bool)
      [] x.t = "nil"     -> JNull
      [] x.t = "map"     ->
            LET keys == SortStrings(DOMAIN x.m)
            IN  JObj([i \in 1..Len(keys) |-> <<keys[i], ToJSON(x.m[keys[i]])>>])
      [] x.t = "slice"   -> JArr([i \in 1..Len(x.s) |-> ToJSON(x.s[i])])

\* json.Marshal of a TxLogEvent: log_data, event_type and tags in the order
\* of the struct's fields
MarshalTxLogEvent(eventData) ==
    JObj(<<<<StrLogData, eventData.LogData>>,
           <<StrEventType, JStr(eventData.EventType)>>,
           <<StrTags, JArr([i \in 1..Len(eventData.Tags) |->
                               JStr(eventData.Tags[i])])>>>>)

\* the entries of a map[string]interface{}; a nil map has none
Entries(logData) == IF logData.t = "map" THEN logData.m ELSE <<>>

\* logData[key].(string)
StringAt(logData, key) ==
    IF key \in DOMAIN Entries(logData) /\ Entries(logData)[key].t = "string"
    THEN [ok |-> TRUE, str |-> Entries(logData)[key].str]
    ELSE [ok |-> FALSE, str |-> <<>>]

\* the tag {name, logData[key]} when logData[key] is a string
StringTag(logData, key, name) ==
    IF StringAt(logData, key).ok THEN <<<<name, StringAt(logData, key).str>>>>
    ELSE <<>>

\* the tags of package log that follow the type tags, up to the timestamp:
\* chain id, status, transaction hash, sender, recipient, amount, timestamp
IndexTags(logData) ==
    StringTag(logData, StrChainId, StrT)
      \o StringTag(logData, StrStatus, StrT)
      \o StringTag(logData, StrTxHash, StrR)
      \o StringTag(logData, StrSender, StrP)
      \o (IF StringAt(logData, StrTo).str # <<>>
          THEN StringTag(logData, StrTo, StrP) ELSE <<>>)
      \o (IF StringAt(logData, StrValue).str # Str0
          THEN StringTag(logData, StrValue, StrAmount) ELSE <<>>)
      \o (IF /\ StrCreatedAt \in DOMAIN Entries(logData)
             /\ Entries(logData)[StrCreatedAt].t = "int64"
          THEN <<<<StrTimestamp, FormatInt(Entries(logData)[StrCreatedAt].int)>>>>
          ELSE <<>>)

\* the tag lists flattenDataToTags can add for logData["data"], none when it
\* is no map[string]interface{}
DataTags(logData) ==
    IF /\ StrData \in DOMAIN Entries(logData)
       /\ Entries(logData)[StrData].t = "map"
    THEN flattenDataToTags(Entries(logData)[StrData].m)
    ELSE {<<>>}

\* a call that returns (nil, err)
Failed == [err |-> TRUE]
\* a call that returns (evt, nil)
Returned(evt) == [err |-> FALSE, evt |-> evt]

\* CreateTxLogEvent of package log without the blockchain tag
CreateTxLogEventNoEthereum(out, now) ==
    IF out.err THEN {Failed}
    ELSE {Returned([CreatedAt |-> now, Kind |-> KindTxLog,
                    Tags |-> StringTag(out.data, StrHash, StrD)
                               \o <<<<StrT, StrTxLog>>>>
                               \o IndexTags(out.data) \o dataTags,
                    Content |-> MarshalTxLogEvent(
                                   [LogData |-> ToJSON(out.data),
                                    EventType |-> EventTypeTxLogCreated,
                                    Tags |-> <<StrTxLog, StrEthereum>>])]) :
             dataTags \in DataTags(out.data)}

\* CreateTxLogEvent of package log: the events it can return for what
\* log.OutputData() gives, now being time.Now().Unix()
CreateTxLogEvent(out, now) ==
    IF out.err THEN {Failed}
    ELSE {Returned([CreatedAt |-> now, Kind |-> KindTxLog,
                    Tags |-> StringTag(out.data, StrHash, StrD)
                               \o <<<<StrT, StrTxLog>>, <<StrT, StrEthereum>>>>
                               \o IndexTags(out.data) \o dataTags,
                    Content |-> MarshalTxLogEvent(
                                   [LogData |-> ToJSON(out.data),
                                    EventType |-> EventTypeTxLogCreated,
                                    Tags |-> <<StrTxLog, StrEthereum>>])]) :
             dataTags \in DataTags(out.data)}

\* the reference tag: originalEventID is the variadic argument
ReferenceTag(originalEventID) ==
    IF Len(originalEventID) > 0 /\ originalEventID[1] # <<>>
    THEN <<<<StrE, originalEventID[1], StrReply>>>> ELSE <<>>

\* UpdateTxLogEvent of package log that adds the reference tag always
UpdateTxLogEventAlwaysReference(logData, now, originalEventID) ==
    {Returned([CreatedAt |-> now, Kind |-> KindTxLog,
               Tags |-> <<<<StrE, IF Len(originalEventID) > 0
                                  THEN originalEventID[1] ELSE <<>>, StrReply>>>>
                          \o StringTag(logData, StrHash, StrD)
                          \o <<<<StrT, StrTxLog>>, <<StrT, StrEthereum>>,
                               <<StrT, StrUpdate>>>>
                          \o IndexTags(logData) \o dataTags,
               Content |-> MarshalTxLogEvent(
                              [LogData |-> ToJSON(logData),
                               EventType |-> EventTypeTxLogUpdated,
                               Tags |-> <<StrTxLog, StrEthereum, StrUpdate>>])]) :
        dataTags \in DataTags(logData)}

\* UpdateTxLogEvent of package log
UpdateTxLogEvent(logData, now, originalEventID) ==
    {Returned([CreatedAt |-> now, Kind |-> KindTxLog,
               Tags |-> ReferenceTag(originalEventID)
                          \o StringTag(logData, StrHash, StrD)
                          \o <<<<StrT, StrTxLog>>, <<StrT, StrEthereum>>,
                               <<StrT, StrUpdate>>>>
                          \o IndexTags(logData) \o dataTags,
               Content |-> MarshalTxLogEvent(
                              [LogData |-> ToJSON(logData),
                               EventType |-> EventTypeTxLogUpdated,
                               Tags |-> <<StrTxLog, StrEthereum, StrUpdate>>])]) :
        dataTags \in DataTags(logData)}

\* m with m[k] = v
Put(m, k, v) == [x \in DOMAIN m \cup {k} |-> IF x = k THEN v ELSE m[x]]

\* UpdateLogStatusEvent writing status and updated_at into the caller's map
UpdateLogStatusEventInPlace(logData, newStatus, now, later, originalEventID) ==
    LET updatedLogData ==
            GoMap(Put(Put(Entries(logData), StrStatus, GoString(newStatus)),
                      StrUpdatedAt, GoInt64(now)))
    IN  [logData |-> updatedLogData,
         results |-> UpdateTxLogEvent(updatedLogData, later, originalEventID)]

\* UpdateLogStatusEvent: the caller's map after the call and the events the
\* call can return; the entries are copied into a new map, which gets the
\* status and the time; now and later are the two readings of the clock
UpdateLogStatusEvent(logData, newStatus, now, later, originalEventID) ==
    LET updatedLogData ==
            GoMap(Put(Put(Entries(logData), StrStatus, GoString(newStatus)),
                      StrUpdatedAt, GoInt64(now)))
    IN  [logData |-> logData,
         results |-> UpdateTxLogEvent(updatedLogData, later, originalEventID)]

\* json.Unmarshal([]byte(evt.Content), &txLogEvent) with LogData a
\* map[string]interface{}: the members log_data and event_type
ParseTxLogEvent(content) ==
    LET m == DecodeObject(content.members)
    IN  [LogData |-> IF m[StrLogData].t = "map" THEN m[StrLogData].m ELSE <<>>,
         EventType |-> m[StrEventType].str]

RECURSIVE NatOf(_)
\* the number of a big-endian magnitude
NatOf(abs) ==
    IF abs = <<>> THEN 0 ELSE 256 * NatOf(SubSeq(abs, 1, Len(abs) - 1)) + abs[Len(abs)]

\* (*big.Int).String(): "<nil>" for the nil pointer
BigString(x) == IF x.nil THEN StrNilBig ELSE FormatInt(NatOf(x.abs))

\* json.Marshal of a neth.Log held in a struct by value: the fields by
\* their json names; (*Log).MarshalJSON has a pointer receiver and is not
\* called for a value that is not addressable.  A nil Value and a nil Data
\* are written as null; Data that is no JSON text is an error.
MarshalLog(l) ==
    IF l.Data # NilData /\ ~IsValid(l.Data) THEN [err |-> TRUE, doc |-> JNull]
    ELSE [err |-> FALSE,
          doc |-> JObj(<<<<StrHash, JStr(l.Hash)>>,
                         <<StrTxHash, JStr(l.TxHash)>>,
                         <<StrChainId, JStr(l.ChainID)>>,
                         <<StrTopic, JStr(l.Topic)>>,
                         <<StrCreatedAt, JStr(l.CreatedAt.rfc3339)>>,
                         <<StrUpdatedAt, JStr(l.UpdatedAt.rfc3339)>>,
                         <<StrNonce, ToJSON(GoInt64(l.Nonce))>>,
                         <<StrSender, JStr(l.Sender)>>,
                         <<StrTo, JStr(l.To)>>,
                         <<StrValue, IF l.Value.nil THEN JNull
                                     ELSE JNum(FALSE, Digits(NatOf(l.Value.abs)), <<>>)>>,
                         <<StrData, IF l.Data = NilData THEN JNull ELSE l.Data>>>>)]

\* the tags of package event that follow the type tags
LogIndexTags(l) ==
    <<<<StrT, l.ChainID>>, <<StrR, l.TxHash>>, <<StrP, l.Sender>>, <<StrP, l.To>>,
      <<StrAmount, BigString(l.Value)>>>>

\* the tag lists flattenDataToTags can add for *log.Data, none for a nil Data
LogDataTags(l) == IF l.Data # NilData THEN flattenDataToTagsBytes(l.Data) ELSE {<<>>}

\* CreateTxLogEvent of package event
CreateTxLogEventLog(l) ==
    IF MarshalLog(l).err THEN {Failed}
    ELSE {Returned([CreatedAt |-> l.CreatedAt.unix, Kind |-> KindTxLog,
                    Tags |-> <<<<StrD, l.Hash>>, <<StrT, StrTxLog>>,
                               <<StrT, StrEthereum>>>>
                               \o LogIndexTags(l) \o dataTags,
                    Content |-> MarshalTxLogEvent(
                                   [LogData |-> MarshalLog(l).doc,
                                    EventType |-> EventTypeTxLogCreated,
                                    Tags |-> <<StrTxLog, StrEthereum>>])]) :
             dataTags \in LogDataTags(l)}

\* a nil *nostr.Event
NilEvent == [nil |-> TRUE, ID |-> <<>>]

\* UpdateTxLogEvent of package event
UpdateTxLogEventLog(l, event) ==
    IF MarshalLog(l).err THEN {Failed}
    ELSE {Returned([CreatedAt |-> l.CreatedAt.unix, Kind |-> KindTxLog,
                    Tags |-> (IF ~event.nil
                              THEN <<<<StrE, event.ID, StrReply>>>> ELSE <<>>)
                               \o <<<<StrD, l.Hash>>, <<StrT, StrTxLog>>,
                                    <<StrT, StrEthereum>>, <<StrT, StrUpdate>>>>
                               \o LogIndexTags(l) \o dataTags,
                    Content |-> MarshalTxLogEvent(
                                   [LogData |-> MarshalLog(l).doc,
                                    EventType |-> EventTypeTxLogUpdated,
                                    Tags |-> <<StrTxLog, StrEthereum, StrUpdate>>])]) :
             dataTags \in LogDataTags(l)}

-----------------------------------------------------------------------------
(* The event builders as a state machine: a caller of package log holds a   *)
(* logData map, a caller of package event a neth.Log, and calls the         *)
(* builders of the package on it, one call after another.                   *)

MaxTime == 2

\* the values time.Now().Unix() returns
Times == 1..MaxTime

StatusSamples == {StrPending, StrConfirmed}

\* logData["data"]: missing, nil, a map, a map with the keys "e" and "t"
LogDataDataSamples ==
    {GoNil,
     GoMap(StrFrom :> GoString(Addr1) @@ StrTopic :> GoString(TopicHash)),
     GoMap(StrE :> GoString(StrReply) @@ StrT :> GoString(StrUpdate))}

\* the caller's maps: nil, empty, the map of the tests with and without data,
\* a map whose entries have other types than the builders look for, and a
\* map whose nonce is math.MaxInt64
LogDataSamples ==
    {GoNil, GoMap(<<>>),
     GoMap(StrHash :> GoString(Str0x1234) @@ StrNonce :> GoInt64Big(MaxInt64)),
     GoMap(StrHash :> GoInt64(7) @@ StrStatus :> GoBool(TRUE)
             @@ StrCreatedAt :> Float18)}
      \cup {GoMap(StrHash :> GoString(Str0x1234) @@ StrTxHash :> GoString(Str0x12)
                    @@ StrCreatedAt :> GoInt64(1) @@ StrUpdatedAt :> GoInt64(1)
                    @@ StrNonce :> GoInt(5) @@ StrSender :> GoString(Addr1)
                    @@ StrTo :> GoString(tv[1]) @@ StrValue :> GoString(tv[2])
                    @@ StrData :> d @@ StrStatus :> GoString(StrPending)) :
               tv \in {<<<<>>, Str0>>, <<Addr1, Str5>>}, d \in LogDataDataSamples}

Epoch1 == [unix |-> 1, rfc3339 |-> StrEpoch1]

NethLogs ==
    [Hash : {Str0x1234}, TxHash : {Str0x12}, ChainID : {Str1}, Topic : {TopicHash},
     CreatedAt : {Epoch1}, UpdatedAt : {Epoch1}, Nonce : {5},
     Sender : {Addr1}, To : {<<>>},
     Value : {BigNat(<<>>), BigNat(<<5>>), NilBigInt},
     Data : {NilData, JObj(<<<<StrE, JStr(StrReply)>>, <<StrT, JStr(StrUpdate)>>>>),
             JInvalid(<<123, 34>>)}]

\* the variadic originalEventID: not given, empty, one id, two ids
OriginalEventIDs == {<<>>, <<<<>>>>, <<StrEventId>>, <<StrEventId, StrReply>>}

\* the event argument of package event: nil, an unsigned event (its ID is
\* empty), a signed one
Events == {NilEvent, [nil |-> FALSE, ID |-> <<>>], [nil |-> FALSE, ID |-> StrEventId]}

NoArgs == [newStatus |-> <<>>, originalEventID |-> <<>>, event |-> NilEvent]

TxLogInit ==
    /\ \/ pc = "log" /\ callerData \in LogDataSamples /\ callerLog = Unused
       \/ pc = "event" /\ callerData = Unused /\ callerLog \in NethLogs
    /\ invoked = NotCalled
    /\ returned = NotCalled
    /\ FlattenUnused /\ CanonUnused /\ HashUnused /\ NeventUnused /\ OpUnused /\ GroupIdUnused /\ UserOpEvUnused /\ MarshalCallUnused /\ ReplyUnused /\ GroupEvUnused /\ TransferUnused
    /\ ConcUnused

\* CreateTxLogEvent(log, privateKey) of package log, the outputter giving the
\* caller's map or an error
CallCreateTxLogEvent ==
    /\ pc = "log"
    /\ \E failing \in BOOLEAN : \E now \in Times :
          LET out == IF failing THEN [err |-> TRUE, data |-> GoNil]
                     ELSE [err |-> FALSE, data |-> callerData]
          IN  /\ invoked' = [fn |-> "log.CreateTxLogEvent", failing |-> failing,
                             args |-> NoArgs]
              /\ returned' \in CreateTxLogEvent(out, now)
    /\ UNCHANGED <<pc, callerData, callerLog>>
    /\ UNCHANGED <<flattenVars, canonVars, hashVars, neventVars, opVars, concVars, groupIdVars, userOpEvVars, marshalVars, replyVars, groupEvVars, transferVars>>

\* UpdateTxLogEvent(logData, privateKey, originalEventID...) of package log
CallUpdateTxLogEvent ==
    /\ pc = "log"
    /\ \E ids \in OriginalEventIDs : \E now \in Times :
          /\ invoked' = [fn |-> "log.UpdateTxLogEvent", failing |-> FALSE,
                         args |-> [NoArgs EXCEPT !.originalEventID = ids]]
          /\ returned' \in UpdateTxLogEvent(callerData, now, ids)
    /\ UNCHANGED <<pc, callerData, callerLog>>
    /\ UNCHANGED <<flattenVars, canonVars, hashVars, neventVars, opVars, concVars, groupIdVars, userOpEvVars, marshalVars, replyVars, groupEvVars, transferVars>>

\* UpdateLogStatusEvent(logData, newStatus, privateKey, originalEventID...)
CallUpdateLogStatusEvent ==
    /\ pc = "log"
    /\ \E newStatus \in StatusSamples : \E ids \in OriginalEventIDs :
       \E now \in Times : \E later \in now..MaxTime :
          LET r == UpdateLogStatusEvent(callerData, newStatus, now, later, ids)
          IN  /\ invoked' = [fn |-> "log.UpdateLogStatusEvent", failing |-> FALSE,
                             args |-> [NoArgs EXCEPT !.newStatus = newStatus,
                                                     !.originalEventID = ids]]
              /\ callerData' = r.logData
              /\ returned' \in r.results
    /\ UNCHANGED <<pc, callerLog>>
    /\ UNCHANGED <<flattenVars, canonVars, hashVars, neventVars, opVars, concVars, groupIdVars, userOpEvVars, marshalVars, replyVars, groupEvVars, transferVars>>

\* CreateTxLogEvent(log) of package event
CallCreateTxLogEventLog ==
    /\ pc = "event"
    /\ invoked' = [fn |-> "event.CreateTxLogEvent", failing |-> FALSE,
                   args |-> NoArgs]
    /\ returned' \in CreateTxLogEventLog(callerLog)
    /\ UNCHANGED <<pc, callerData, callerLog>>
    /\ UNCHANGED <<flattenVars, canonVars, hashVars, neventVars, opVars, concVars, groupIdVars, userOpEvVars, marshalVars, replyVars, groupEvVars, transferVars>>

\* UpdateTxLogEvent(log, event) of package event
CallUpdateTxLogEventLog ==
    /\ pc = "event"
    /\ \E event \in Events :
          /\ invoked' = [fn |-> "event.UpdateTxLogEvent", failing |-> FALSE,
                         args |-> [NoArgs EXCEPT !.event = event]]
          /\ returned' \in UpdateTxLogEventLog(callerLog, event)
    /\ UNCHANGED <<pc, callerData, callerLog>>
    /\ UNCHANGED <<flattenVars, canonVars, hashVars, neventVars, opVars, concVars, groupIdVars, userOpEvVars, marshalVars, replyVars, groupEvVars, transferVars>>

TxLogNext ==
    \/ CallCreateTxLogEvent
    \/ CallUpdateTxLogEvent
    \/ CallUpdateLogStatusEvent
    \/ CallCreateTxLogEventLog
    \/ CallUpdateTxLogEventLog

SpecTxLog == TxLogInit /\ [][TxLogNext]_vars

-----------------------------------------------------------------------------
(* Claims about the event builders.                                        *)

\* a call of one of the two CreateTxLogEvent has returned an event
Created ==
    /\ returned # NotCalled
    /\ invoked.fn \in {"log.CreateTxLogEvent", "event.CreateTxLogEvent"}
    /\ ~returned.err

HasTag(evt, tag) == \E i \in 1..Len(evt.Tags) : evt.Tags[i] = tag

Updated ==
    /\ returned # NotCalled
    /\ invoked.fn \in {"log.UpdateTxLogEvent", "log.UpdateLogStatusEvent",
                       "event.UpdateTxLogEvent"}
    /\ ~returned.err

\* the call was given a reference to the original event: in package log an
\* id that is not the empty string, in package event an event
ReferenceSupplied ==
    IF invoked.fn = "event.UpdateTxLogEvent" THEN ~invoked.args.event.nil
    ELSE /\ Len(invoked.args.originalEventID) > 0
         /\ invoked.args.originalEventID[1] # <<>>

\* the id of the original event the call was given
OriginalEventID ==
    IF invoked.fn = "event.UpdateTxLogEvent" THEN invoked.args.event.ID
    ELSE invoked.args.originalEventID[1]

\* the event has a tag ("e", id, "reply") for some id
HasReplyTag(evt) ==
    \E i \in 1..Len(evt.Tags) :
        /\ Len(evt.Tags[i]) = 3
        /\ evt.Tags[i][1] = StrE
        /\ evt.Tags[i][3] = StrReply

\* C19: an event UpdateTxLogEvent returns carries the tag
\* ("e", original event id, "reply") when a reference to the original event
\* was supplied and no such tag when none was; every update event carries
\* the tag ("t", "update") and its content has event_type "tx_log_updated"
C19_UpdateEventReference ==
    Updated =>
        /\ ReferenceSupplied =>
              HasTag(returned.evt, <<StrE, OriginalEventID, StrReply>>)
        /\ ~ReferenceSupplied => ~HasReplyTag(returned.evt)
        /\ HasTag(returned.evt, <<StrT, StrUpdate>>)
        /\ ParseTxLogEvent(returned.evt.Content).EventType = EventTypeTxLogUpdated

\* C19 case: UpdateTxLogEvent of package log, given the id of the original
\* event, has returned an event for a log whose data has a key "e"
C19_Witness ==
    /\ Updated
    /\ invoked.fn = "log.UpdateTxLogEvent"
    /\ ReferenceSupplied
    /\ HasTag(returned.evt, <<StrE, StrReply>>)
    /\ HasReplyTag(returned.evt)

\* C19 case: UpdateTxLogEvent called without a reference
C19_WitnessNoReference ==
    /\ Updated
    /\ invoked.fn = "log.UpdateTxLogEvent"
    /\ invoked.args.originalEventID = <<>>
    /\ ~HasReplyTag(returned.evt)

\* a call of UpdateLogStatusEvent has returned an event
StatusUpdated ==
    /\ returned # NotCalled
    /\ invoked.fn = "log.UpdateLogStatusEvent"
    /\ ~returned.err

\* the log_data a reader parses from the content of the returned event
ParsedLogData == ParseTxLogEvent(returned.evt.Content).LogData

\* C20: the content of the event UpdateLogStatusEvent returns has a log_data
\* whose status is newStatus and whose other entries, updated_at apart, are
\* those of the caller's map; the call leaves the caller's map as it was, so
\* the next call on the map starts from the same data
C20_StatusUpdateLeavesCallerMap ==
    /\ [](StatusUpdated =>
            /\ StrStatus \in DOMAIN ParsedLogData
            /\ ParsedLogData[StrStatus] = GoString(invoked.args.newStatus)
            /\ \A k \in DOMAIN Entries(callerData) \ {StrStatus, StrUpdatedAt} :
                  /\ k \in DOMAIN ParsedLogData
                  /\ ParsedLogData[k] = Decode(ToJSON(Entries(callerData)[k])))
    /\ [][invoked'.fn = "log.UpdateLogStatusEvent" => callerData' = callerData]_vars

\* C20 case: UpdateLogStatusEvent has returned an event with status
\* "confirmed" for a caller's map whose status is still "pending"
C20_Witness ==
    /\ StatusUpdated
    /\ invoked.args.newStatus = StrConfirmed
    /\ StringAt(callerData, StrStatus).str = StrPending
    /\ StrUpdatedAt \in DOMAIN Entries(callerData)
    /\ ParsedLogData[StrStatus] = GoString(StrConfirmed)

-----------------------------------------------------------------------------
(* Reading a transaction-log event back.                                   *)

RECURSIVE BytesOfNat(_)
\* the big-endian magnitude of a number, without leading zeros
BytesOfNat(n) == IF n = 0 THEN <<>> ELSE BytesOfNat(n \div 256) \o <<n % 256>>

RECURSIVE NatOfDigits(_)
\* the number of a digit sequence
NatOfDigits(ds) ==
    IF ds = <<>> THEN 0 ELSE 10 * NatOfDigits(SubSeq(ds, 1, Len(ds) - 1)) + ds[Len(ds)]

\* time.Time.UnmarshalJSON for the times of the model
ParseTime(text) == CHOOSE t \in {Epoch1} : t.rfc3339 = text

\* json.Unmarshal of the log_data member into a neth.Log: null leaves the
\* pointers Value and Data nil
UnmarshalLog(doc) ==
    [Hash |-> MemberValue(doc, StrHash).str,
     TxHash |-> MemberValue(doc, StrTxHash).str,
     ChainID |-> MemberValue(doc, StrChainId).str,
     Topic |-> MemberValue(doc, StrTopic).str,
     CreatedAt |-> ParseTime(MemberValue(doc, StrCreatedAt).str),
     UpdatedAt |-> ParseTime(MemberValue(doc, StrUpdatedAt).str),
     Nonce |-> NatOfDigits(MemberValue(doc, StrNonce).ip),
     Sender |-> MemberValue(doc, StrSender).str,
     To |-> MemberValue(doc, StrTo).str,
     Value |-> IF MemberValue(doc, StrValue).j = "null" THEN NilBigInt
               ELSE BigNat(BytesOfNat(NatOfDigits(MemberValue(doc, StrValue).ip))),
     Data |-> IF MemberValue(doc, StrData).j = "null" THEN NilData
              ELSE MemberValue(doc, StrData)]

\* ParseTxLogEvent of package event: LogData is a neth.Log
ParseTxLogEventLog(content) ==
    [LogData |-> UnmarshalLog(MemberValue(content, StrLogData)),
     EventType |-> MemberValue(content, StrEventType).str]

RECURSIVE SameValue(_, _)
\* a value and the value read back from its JSON text are equal: numbers by
\* their value, whatever their Go type
SameValue(x, y) ==
    CASE x.t \in {"int64", "int", "uint64"} ->
            /\ y.t = "float64"
            /\ FloatEq(y, GoFloat(x.int < 0,
                                  Digits(IF x.int < 0 THEN 0 - x.int ELSE x.int), <<>>))
      [] x.t = "int64.big" ->
            y.t = "float64" /\ FloatEq(y, GoFloat(x.big.neg, x.big.digits, <<>>))
      [] x.t = "float64" -> y.t = "float64" /\ FloatEq(y, x)
      [] x.t = "map" ->
            /\ y.t = "map"
            /\ DOMAIN y.m = DOMAIN x.m
            /\ \A k \in DOMAIN x.m : SameValue(x.m[k], y.m[k])
      [] x.t = "slice" ->
            /\ y.t = "slice"
            /\ Len(y.s) = Len(x.s)
            /\ \A i \in 1..Len(x.s) : SameValue(x.s[i], y.s[i])
      [] OTHER -> y = x

\* the log data and event type ParseTxLogEvent returns for the created event
\* are those CreateTxLogEvent was given
ReadBackEqual ==
    IF invoked.fn = "log.CreateTxLogEvent"
    THEN /\ ParseTxLogEvent(returned.evt.Content).EventType = EventTypeTxLogCreated
         /\ SameValue(GoMap(Entries(callerData)),
                      GoMap(ParseTxLogEvent(returned.evt.Content).LogData))
    ELSE /\ ParseTxLogEventLog(returned.evt.Content).EventType = EventTypeTxLogCreated
         /\ ParseTxLogEventLog(returned.evt.Content).LogData = callerLog

\* C21: ParseTxLogEvent applied to an event CreateTxLogEvent returned gives
\* event type "tx_log_created" and log data whose hash and other fields equal
\* those of the log the event was created from
C21_TxLogRoundTrip == Created => ReadBackEqual

\* every integer of the caller's map is a float64 value
RECURSIVE ExactNumbers(_)
ExactNumbers(x) ==
    CASE x.t = "int64.big" -> x.big # MaxInt64
      [] x.t = "map" -> \A k \in DOMAIN x.m : ExactNumbers(x.m[k])
      [] x.t = "slice" -> \A i \in 1..Len(x.s) : ExactNumbers(x.s[i])
      [] OTHER -> TRUE

\* the round trip for the logs of package event and for the maps of package
\* log whose integers are float64 values
C21_TxLogRoundTripExact ==
    (Created /\ (invoked.fn = "log.CreateTxLogEvent" => ExactNumbers(callerData)))
        => ReadBackEqual

-----------------------------------------------------------------------------
(* Group identifiers: "host'group-id" (package event, group.go).           *)

\* "wss://groups.example.com"
StrGroupsHost == <<119, 115, 115, 58, 47, 47, 103, 114, 111, 117, 112, 115, 46, 101, 120, 97, 109, 112, 108, 101, 46, 99, 111, 109>>
\* "wss://o'neil.example.com"
StrApostropheHost == <<119, 115, 115, 58, 47, 47, 111, 39, 110, 101, 105, 108, 46, 101, 120, 97, 109, 112, 108, 101, 46, 99, 111, 109>>
\* "my-group"
StrMyGroup == <<109, 121, 45, 103, 114, 111, 117, 112>>
\* "'"
StrApostrophe == <<39>>

RECURSIVE Split(_, _)
\* strings.Split(s, sep) for a separator of one byte: the pieces between the
\* separators, one more than there are separators
Split(s, sep) ==
    IF \A i \in 1..Len(s) : s[i] # sep[1] THEN <<s>>
    ELSE LET at == CHOOSE i \in 1..Len(s) :
                      s[i] = sep[1] /\ \A j \in 1..(i - 1) : s[j] # sep[1]
         IN  <<SubSeq(s, 1, at - 1)>> \o Split(SubSeq(s, at + 1, Len(s)), sep)

\* ParseGroupIdentifier
ParseGroupIdentifier(groupIdentifier) ==
    LET parts == Split(groupIdentifier, StrApostrophe)
    IN  IF Len(parts) # 2 THEN [host |-> <<>>, groupID |-> <<>>, err |-> TRUE]
        ELSE [host |-> parts[1], groupID |-> parts[2], err |-> FALSE]

\* FormatGroupIdentifier: fmt.Sprintf("%s'%s", host, groupID)
FormatGroupIdentifier(host, groupID) == host \o StrApostrophe \o groupID

\* a character ValidateGroupID lets pass: a letter, a digit, '-' or '_'
IsGroupIDChar(char) ==
    \/ (char >= 97 /\ char <= 122)
    \/ (char >= 65 /\ char <= 90)
    \/ (char >= 48 /\ char <= 57)
    \/ char = 45
    \/ char = 95

\* ValidateGroupID: the error it returns
ValidateGroupID(groupID) ==
    [err |-> groupID = <<>> \/ \E i \in 1..Len(groupID) : ~IsGroupIDChar(groupID[i])]

MaxIdLen == 2

\* 'a', 'Z', '0', '-', '_', the apostrophe and the space
IdChars == {97, 90, 48, 45, 95, 39, 32}

GroupIDSamples ==
    UNION {[1..n -> IdChars] : n \in 0..MaxIdLen} \cup {StrMyGroup}

HostSamples == {<<>>, StrGroupsHost, StrApostropheHost}

GroupIdInit ==
    /\ pc = "start"
    /\ groupArgs \in [host : HostSamples, groupID : GroupIDSamples]
    /\ identifier = NotCalled
    /\ parsedId = NotCalled
    /\ validation = NotCalled
    /\ FlattenUnused /\ CanonUnused /\ HashUnused /\ NeventUnused /\ OpUnused /\ MarshalCallUnused /\ ReplyUnused /\ GroupEvUnused /\ TransferUnused
    /\ ConcUnused /\ TxLogUnused /\ UserOpEvUnused /\ MarshalCallUnused /\ ReplyUnused /\ GroupEvUnused /\ TransferUnused

CallFormatGroupIdentifier ==
    /\ pc = "start"
    /\ identifier' = [text |-> FormatGroupIdentifier(groupArgs.host, groupArgs.groupID)]
    /\ pc' = "formatted"
    /\ UNCHANGED <<groupArgs, parsedId, validation>>
    /\ UNCHANGED <<flattenVars, canonVars, hashVars, neventVars, opVars, concVars,
                   txLogVars, userOpEvVars, marshalVars, replyVars, groupEvVars, transferVars>>

CallParseGroupIdentifier ==
    /\ pc = "formatted"
    /\ parsedId' = ParseGroupIdentifier(identifier.text)
    /\ pc' = "parsed"
    /\ UNCHANGED <<groupArgs, identifier, validation>>
    /\ UNCHANGED <<flattenVars, canonVars, hashVars, neventVars, opVars, concVars,
                   txLogVars, userOpEvVars, marshalVars, replyVars, groupEvVars, transferVars>>

CallValidateGroupID ==
    /\ validation = NotCalled
    /\ validation' = ValidateGroupID(groupArgs.groupID)
    /\ UNCHANGED <<pc, groupArgs, identifier, parsedId>>
    /\ UNCHANGED <<flattenVars, canonVars, hashVars, neventVars, opVars, concVars,
                   txLogVars, userOpEvVars, marshalVars, replyVars, groupEvVars, transferVars>>

GroupIdNext ==
    \/ CallFormatGroupIdentifier
    \/ CallParseGroupIdentifier
    \/ CallValidateGroupID

SpecGroupId == GroupIdInit /\ [][GroupIdNext]_vars

\* C22: ParseGroupIdentifier(FormatGroupIdentifier(host, groupID)) returns
\* (host, groupID) without error, for every host and group ID
C22_GroupIdentifierRoundTrip ==
    pc = "parsed" =>
        /\ ~parsedId.err
        /\ parsedId.host = groupArgs.host
        /\ parsedId.groupID = groupArgs.groupID

\* the round trip for the group IDs ValidateGroupID accepts and the hosts
\* without an apostrophe
C22_ValidRoundTrip ==
    (/\ pc = "parsed"
     /\ ~ValidateGroupID(groupArgs.groupID).err
     /\ \A i \in 1..Len(groupArgs.host) : groupArgs.host[i] # 39)
        => /\ ~parsedId.err
           /\ parsedId.host = groupArgs.host
           /\ parsedId.groupID = groupArgs.groupID

-----------------------------------------------------------------------------
(* User-operation events (package event, userop.go) and the JSON forms of   *)
(* neth.UserOp.                                                             *)

\* "0x"
Str0xPrefix == <<48, 120>>
\* "user_op_data"
StrUserOpData == <<117, 115, 101, 114, 95, 111, 112, 95, 100, 97, 116, 97>>
\* "paymaster"
StrPaymaster == <<112, 97, 121, 109, 97, 115, 116, 101, 114>>
\* "entry_point"
StrEntryPoint == <<101, 110, 116, 114, 121, 95, 112, 111, 105, 110, 116>>
\* "retry_count"
StrRetryCount == <<114, 101, 116, 114, 121, 95, 99, 111, 117, 110, 116>>
\* "initCode"
StrInitCode == <<105, 110, 105, 116, 67, 111, 100, 101>>
\* "callData"
StrCallData == <<99, 97, 108, 108, 68, 97, 116, 97>>
\* "callGasLimit"
StrCallGasLimit == <<99, 97, 108, 108, 71, 97, 115, 76, 105, 109, 105, 116>>
\* "verificationGasLimit"
StrVerificationGasLimit == <<118, 101, 114, 105, 102, 105, 99, 97, 116, 105, 111, 110, 71, 97, 115, 76, 105, 109, 105, 116>>
\* "preVerificationGas"
StrPreVerificationGas == <<112, 114, 101, 86, 101, 114, 105, 102, 105, 99, 97, 116, 105, 111, 110, 71, 97, 115>>
\* "maxFeePerGas"
StrMaxFeePerGas == <<109, 97, 120, 70, 101, 101, 80, 101, 114, 71, 97, 115>>
\* "maxPriorityFeePerGas"
StrMaxPriorityFeePerGas == <<109, 97, 120, 80, 114, 105, 111, 114, 105, 116, 121, 70, 101, 101, 80, 101, 114, 71, 97, 115>>
\* "paymasterAndData"
StrPaymasterAndData == <<112, 97, 121, 109, 97, 115, 116, 101, 114, 65, 110, 100, 68, 97, 116, 97>>
\* "signature"
StrSignature == <<115, 105, 103, 110, 97, 116, 117, 114, 101>>
\* "user_op"
StrUserOp == <<117, 115, 101, 114, 95, 111, 112>>
\* "user_op_0_0_6"
StrUserOp006 == <<117, 115, 101, 114, 95, 111, 112, 95, 48, 95, 48, 95, 54>>
\* "evm"
StrEvm == <<101, 118, 109>>
\* "account_abstraction"
StrAccountAbstraction == <<97, 99, 99, 111, 117, 110, 116, 95, 97, 98, 115, 116, 114, 97, 99, 116, 105, 111, 110>>
\* "network"
StrNetwork == <<110, 101, 116, 119, 111, 114, 107>>
\* "layer"
StrLayer == <<108, 97, 121, 101, 114>>
\* "alt"
StrAlt == <<97, 108, 116>>
\* "user_op_requested"
EventTypeUserOpRequested == <<117, 115, 101, 114, 95, 111, 112, 95, 114, 101, 113, 117, 101, 115, 116, 101, 100>>
\* "user_op_submitted"
EventTypeUserOpSubmitted == <<117, 115, 101, 114, 95, 111, 112, 95, 115, 117, 98, 109, 105, 116, 116, 101, 100>>
\* "This is a new user operation request on chain "
StrAltNew == <<84, 104, 105, 115, 32, 105, 115, 32, 97, 32, 110, 101, 119, 32, 117, 115, 101, 114, 32, 111, 112, 101, 114, 97, 116, 105, 111, 110, 32, 114, 101, 113, 117, 101, 115, 116, 32, 111, 110, 32, 99, 104, 97, 105, 110, 32>>
\* "\n this is intended for processing by paymaster: "
StrAltPaymaster == <<10, 32, 116, 104, 105, 115, 32, 105, 115, 32, 105, 110, 116, 101, 110, 100, 101, 100, 32, 102, 111, 114, 32, 112, 114, 111, 99, 101, 115, 115, 105, 110, 103, 32, 98, 121, 32, 112, 97, 121, 109, 97, 115, 116, 101, 114, 58, 32>>
\* "This is a user operation update of type "
StrAltUpdate == <<84, 104, 105, 115, 32, 105, 115, 32, 97, 32, 117, 115, 101, 114, 32, 111, 112, 101, 114, 97, 116, 105, 111, 110, 32, 117, 112, 100, 97, 116, 101, 32, 111, 102, 32, 116, 121, 112, 101, 32>>
\* " on chain "
StrAltOnChain == <<32, 111, 110, 32, 99, 104, 97, 105, 110, 32>>
\* "0xaa"
StrTxA == <<48, 120, 97, 97>>
\* "0xbb"
StrTxB == <<48, 120, 98, 98>>

\* Custom kind for user operations
EventUserOpKind == 111001

\* the lowercase hex digit of a value below 16
HexChar(v) == IF v < 10 THEN 48 + v ELSE 87 + v

\* hex.EncodeToString(b)
EncodeToString(b) ==
    [i \in 1..(2 * Len(b)) |->
        HexChar(IF i % 2 = 1 THEN b[(i + 1) \div 2] \div 16 ELSE b[i \div 2] % 16)]

\* hexutil.Encode(b)
HexutilEncode(b) == Str0xPrefix \o EncodeToString(b)

\* hexutil.EncodeBig(x) of a number that is not nil: "0x0" for zero, else the
\* hex digits without leading zeros
EncodeBig(x) ==
    IF x.abs = <<>> THEN Str0xPrefix \o <<48>>
    ELSE LET h == EncodeToString(x.abs)
         IN  Str0xPrefix \o (IF h[1] = 48 THEN Tail(h) ELSE h)

\* hexutil.Decode(text): the bytes, or an error for an empty text, a missing
\* 0x, an odd number of digits or a character that is no hex digit
HexutilDecode(text) ==
    IF \/ Len(text) < 2
       \/ SubSeq(text, 1, 2) \notin {<<48, 120>>, <<48, 88>>}
       \/ hexToBytes(SubSeq(text, 3, Len(text))).err
    THEN [err |-> TRUE, bytes |-> <<>>]
    ELSE [err |-> FALSE, bytes |-> hexToBytes(SubSeq(text, 3, Len(text))).bytes]

RECURSIVE TrimZeroBytes(_)
\* a magnitude without its leading zero bytes
TrimZeroBytes(b) == IF b # <<>> /\ b[1] = 0 THEN TrimZeroBytes(Tail(b)) ELSE b

\* hexutil.DecodeBig(text): nil with an error for an empty text, a missing
\* 0x, no digits, a leading zero digit, more than 64 digits or a character
\* that is no hex digit
DecodeBig(text) ==
    LET digits == SubSeq(text, 3, Len(text))
    IN  IF \/ Len(text) < 3
           \/ SubSeq(text, 1, 2) \notin {<<48, 120>>, <<48, 88>>}
           \/ (Len(digits) > 1 /\ digits[1] = 48)
           \/ Len(digits) > 64
           \/ \E i \in 1..Len(digits) : HexDigit(digits[i]) < 0
        THEN NilBigInt
        ELSE BigNat(TrimZeroBytes(FromHex(digits)))

\* common.HexToAddress(s): the last 20 bytes of FromHex(s), zeros in front
\* of fewer
HexToAddress(s) ==
    LET b == FromHex(s)
    IN  IF Len(b) > 20 THEN SubSeq(b, Len(b) - 19, Len(b))
        ELSE Repeat(0, 20 - Len(b)) \o b

\* (common.Address).Hex() and String(): 0x and 40 hex digits in the EIP-55
\* casing, which changes letters only; the addresses of the model have the
\* digits 0 to 9 only
AddressHex(a) == Str0xPrefix \o EncodeToString(a)

\* the base64 alphabet of encoding/base64.StdEncoding
Base64Char(v) ==
    IF v < 26 THEN 65 + v
    ELSE IF v < 52 THEN 97 + (v - 26)
    ELSE IF v < 62 THEN 48 + (v - 52)
    ELSE IF v = 62 THEN 43 ELSE 47

RECURSIVE Base64(_)
\* base64.StdEncoding.EncodeToString(b), as json.Marshal writes a []byte
Base64(b) ==
    IF b = <<>> THEN <<>>
    ELSE IF Len(b) = 1
         THEN <<Base64Char(b[1] \div 4), Base64Char((b[1] % 4) * 16), 61, 61>>
    ELSE IF Len(b) = 2
         THEN <<Base64Char(b[1] \div 4),
                Base64Char((b[1] % 4) * 16 + b[2] \div 16),
                Base64Char((b[2] % 16) * 4), 61>>
    ELSE <<Base64Char(b[1] \div 4),
           Base64Char((b[1] % 4) * 16 + b[2] \div 16),
           Base64Char((b[2] % 16) * 4 + b[3] \div 64),
           Base64Char(b[3] % 64)>> \o Base64(SubSeq(b, 4, Len(b)))

\* the names of the numeric and of the byte fields of UserOp, by their json
\* names
BigFields ==
    <<<<"Nonce", StrNonce>>, <<"CallGasLimit", StrCallGasLimit>>,
      <<"VerificationGasLimit", StrVerificationGasLimit>>,
      <<"PreVerificationGas", StrPreVerificationGas>>,
      <<"MaxFeePerGas", StrMaxFeePerGas>>,
      <<"MaxPriorityFeePerGas", StrMaxPriorityFeePerGas>>>>

ByteFields ==
    <<<<"InitCode", StrInitCode>>, <<"CallData", StrCallData>>,
      <<"PaymasterAndData", StrPaymasterAndData>>, <<"Signature", StrSignature>>>>

\* the json names of UserOp in the order of the struct's fields
UserOpFieldOrder ==
    <<StrSender, StrNonce, StrInitCode, StrCallData, StrCallGasLimit,
      StrVerificationGasLimit, StrPreVerificationGas, StrMaxFeePerGas,
      StrMaxPriorityFeePerGas, StrPaymasterAndData, StrSignature>>

\* the Go field of a json name
FieldOf(name) ==
    IF name = StrSender THEN "Sender"
    ELSE LET all == BigFields \o ByteFields
         IN  all[CHOOSE i \in 1..Len(all) : all[i][2] = name][1]

IsBigField(name) == \E i \in 1..Len(BigFields) : BigFields[i][2] = name

\* json.Marshal of a UserOp held by value, which is how CreateUserOpEvent and
\* UpdateUserOpEvent hold it: (*UserOp).MarshalJSON has a pointer receiver
\* and is not called for a value that is not addressable, so the fields are
\* written by their types: the address as lowercase hex text, a *big.Int as
\* a decimal number (null when nil), a []byte as base64 text
MarshalUserOpByValue(op) ==
    JObj([i \in 1..Len(UserOpFieldOrder) |->
            LET name == UserOpFieldOrder[i]
                v == op[FieldOf(name)]
            IN  <<name,
                  IF name = StrSender THEN JStr(Str0xPrefix \o EncodeToString(v))
                  ELSE IF IsBigField(name)
                       THEN (IF v.nil THEN JNull
                             ELSE JNum(FALSE, Digits(NatOf(v.abs)), <<>>))
                  ELSE JStr(Base64(v))>>])

\* (*UserOp).MarshalJSON: every field as text, the numbers and bytes as 0x
\* hex; the numeric fields are not nil
MarshalJSONUserOp(op) ==
    JObj([i \in 1..Len(UserOpFieldOrder) |->
            LET name == UserOpFieldOrder[i]
                v == op[FieldOf(name)]
            IN  <<name,
                  IF name = StrSender THEN JStr(AddressHex(v))
                  ELSE IF IsBigField(name) THEN JStr(EncodeBig(v))
                  ELSE JStr(HexutilEncode(v))>>])

\* the text of a member of an object, "" when the member is missing or null
TextOf(doc, name) ==
    IF \E i \in 1..Len(doc.members) : doc.members[i][1] = name
    THEN (IF MemberValue(doc, name).j = "string" THEN MemberValue(doc, name).str
          ELSE <<>>)
    ELSE <<>>

\* (*UserOp).UnmarshalJSON: an error when a member is neither a text nor
\* null; the errors of hexutil are dropped, which leaves the field nil
UnmarshalJSONUserOp(doc) ==
    IF \/ doc.j # "object"
       \/ \E i \in 1..Len(doc.members) :
             /\ \E n \in 1..Len(UserOpFieldOrder) :
                   UserOpFieldOrder[n] = doc.members[i][1]
             /\ doc.members[i][2].j \notin {"string", "null"}
    THEN [err |-> TRUE]
    ELSE [err |-> FALSE,
          op |-> [f \in {"Sender"} \cup {BigFields[i][1] : i \in 1..Len(BigFields)}
                          \cup {ByteFields[i][1] : i \in 1..Len(ByteFields)} |->
                     LET name == CHOOSE n \in {UserOpFieldOrder[i] :
                                                  i \in 1..Len(UserOpFieldOrder)} :
                                    FieldOf(n) = f
                     IN  IF f = "Sender" THEN HexToAddress(TextOf(doc, name))
                         ELSE IF IsBigField(name) THEN DecodeBig(TextOf(doc, name))
                         ELSE HexutilDecode(TextOf(doc, name)).bytes]]

\* a nil pointer and a pointer to a value
NilPtr == [nil |-> TRUE]
Ptr(v) == [nil |-> FALSE, v |-> v]

\* the members of an object that are written: omitempty leaves out a nil
\* pointer, a zero retry count and an empty tag list
UserOpEventMembers(e, userOpData) ==
    <<<<StrUserOpData, userOpData>>>>
      \o (IF e.Paymaster.nil THEN <<>>
          ELSE <<<<StrPaymaster, JStr(Str0xPrefix \o EncodeToString(e.Paymaster.v))>>>>)
      \o (IF e.EntryPoint.nil THEN <<>>
          ELSE <<<<StrEntryPoint, JStr(Str0xPrefix \o EncodeToString(e.EntryPoint.v))>>>>)
      \o (IF e.Data = NilData THEN <<>> ELSE <<<<StrData, e.Data>>>>)
      \o (IF e.TxHash.nil THEN <<>> ELSE <<<<StrTxHash, JStr(e.TxHash.v)>>>>)
      \o <<<<StrEventType, JStr(e.EventType)>>>>
      \o (IF e.RetryCount = 0 THEN <<>>
          ELSE <<<<StrRetryCount, JNum(FALSE, Digits(e.RetryCount), <<>>)>>>>)
      \o (IF e.Tags = <<>> THEN <<>>
          ELSE <<<<StrTags, JArr([i \in 1..Len(e.Tags) |-> JStr(e.Tags[i])])>>>>)

\* json.Marshal(eventData) of a UserOpEvent held by value: the struct's
\* fields by their json names, the user operation by its fields as well;
\* Data that is no JSON text is an error
MarshalUserOpEvent(e) ==
    IF e.Data # NilData /\ ~IsValid(e.Data) THEN [err |-> TRUE]
    ELSE [err |-> FALSE,
          doc |-> JObj(UserOpEventMembers(e, MarshalUserOpByValue(e.UserOpData)))]

\* has the object a member of this name
HasMember(doc, name) == \E i \in 1..Len(doc.members) : doc.members[i][1] = name

\* the address of a member: nil for a missing member and for null
AddressPtr(doc, name) ==
    IF HasMember(doc, name) /\ MemberValue(doc, name).j = "string"
    THEN Ptr(HexToAddress(MemberValue(doc, name).str))
    ELSE NilPtr

\* (common.Address).UnmarshalJSON accepts null and a text of 0x and 40 hex
\* digits
AddressMemberOk(doc, name) ==
    HasMember(doc, name) =>
        LET m == MemberValue(doc, name)
        IN  \/ m.j = "null"
            \/ /\ m.j = "string"
               /\ Len(m.str) = 42
               /\ SubSeq(m.str, 1, 2) \in {<<48, 120>>, <<48, 88>>}
               /\ \A i \in 3..42 : HexDigit(m.str[i]) >= 0

\* a member of the kind the field takes, null or missing
MemberIs(doc, name, kinds) ==
    HasMember(doc, name) => MemberValue(doc, name).j \in kinds \cup {"null"}

\* (*UserOpEvent).UnmarshalJSON: the members but user_op_data into the
\* struct's fields, then user_op_data by (*UserOp).UnmarshalJSON
UnmarshalJSONUserOpEvent(doc) ==
    IF \/ doc.j # "object"
       \/ ~AddressMemberOk(doc, StrPaymaster)
       \/ ~AddressMemberOk(doc, StrEntryPoint)
       \/ ~MemberIs(doc, StrTxHash, {"string"})
       \/ ~MemberIs(doc, StrEventType, {"string"})
       \/ ~MemberIs(doc, StrRetryCount, {"number"})
       \/ ~MemberIs(doc, StrTags, {"array"})
       \/ ~HasMember(doc, StrUserOpData)
    THEN [err |-> TRUE]
    ELSE IF UnmarshalJSONUserOp(MemberValue(doc, StrUserOpData)).err
    THEN [err |-> TRUE]
    ELSE [err |-> FALSE,
          val |-> [UserOpData |-> UnmarshalJSONUserOp(MemberValue(doc, StrUserOpData)).op,
                   Paymaster |-> AddressPtr(doc, StrPaymaster),
                   EntryPoint |-> AddressPtr(doc, StrEntryPoint),
                   Data |-> IF HasMember(doc, StrData)
                               /\ MemberValue(doc, StrData).j # "null"
                            THEN MemberValue(doc, StrData) ELSE NilData,
                   TxHash |-> IF HasMember(doc, StrTxHash)
                                 /\ MemberValue(doc, StrTxHash).j = "string"
                              THEN Ptr(MemberValue(doc, StrTxHash).str) ELSE NilPtr,
                   EventType |-> TextOf(doc, StrEventType),
                   RetryCount |-> IF HasMember(doc, StrRetryCount)
                                     /\ MemberValue(doc, StrRetryCount).j = "number"
                                  THEN NatOfDigits(MemberValue(doc, StrRetryCount).ip)
                                  ELSE 0,
                   Tags |-> IF HasMember(doc, StrTags)
                               /\ MemberValue(doc, StrTags).j = "array"
                            THEN [i \in 1..Len(MemberValue(doc, StrTags).items) |->
                                     MemberValue(doc, StrTags).items[i].str]
                            ELSE <<>>]]

\* ParseUserOpEvent(evt)
ParseUserOpEvent(evt) == UnmarshalJSONUserOpEvent(evt.Content)

\* a call that ended in a panic returns nothing
Panicked == [err |-> FALSE, panic |-> TRUE]

\* the tags both constructors add, with the pointers each takes them from
UserOpTags(chainID, op, paymaster, entryPoint, txHash, alt) ==
    <<<<StrD, GetHash(op, chainID).hash>>,
      <<StrT, StrUserOp>>, <<StrT, StrUserOp006>>, <<StrNetwork, StrEvm>>,
      <<StrT, StrAccountAbstraction>>, <<StrLayer, BigString(chainID)>>>>
      \o (IF paymaster.nil THEN <<>> ELSE <<<<StrPaymaster, AddressHex(paymaster.v)>>>>)
      \o (IF entryPoint.nil THEN <<>> ELSE <<<<StrEntryPoint, AddressHex(entryPoint.v)>>>>)
      \o (IF txHash.nil THEN <<>> ELSE <<<<StrT, txHash.v>>>>)
      \o <<<<StrP, AddressHex(op.Sender)>>, <<StrNonce, BigString(op.Nonce)>>,
           <<StrAlt, alt \o (IF paymaster.nil THEN <<>>
                             ELSE StrAltPaymaster \o AddressHex(paymaster.v))>>>>

\* CreateUserOpEvent: the content first, then the tags; GetHash panics on a
\* nil chain id or nonce
CreateUserOpEvent(chainID, paymaster, entryPoint, data, txHash, retryCount, op, eventType, now) ==
    LET eventData == [UserOpData |-> op, Paymaster |-> paymaster,
                      EntryPoint |-> entryPoint, Data |-> data, TxHash |-> txHash,
                      EventType |-> eventType, RetryCount |-> retryCount,
                      Tags |-> <<StrUserOp, StrUserOp006, StrEvm, BigString(chainID),
                                 StrAccountAbstraction>>]
    IN  IF MarshalUserOpEvent(eventData).err THEN Failed
        ELSE IF GetHash(op, chainID).panic THEN Panicked
        ELSE Returned([CreatedAt |-> now, Kind |-> EventUserOpKind,
                       Tags |-> UserOpTags(chainID, op, paymaster, entryPoint,
                                           txHash, StrAltNew \o BigString(chainID)),
                       Content |-> MarshalUserOpEvent(eventData).doc])

\* UpdateUserOpEvent: the original is parsed first; paymaster, entry point
\* and data are the original's, and so is the tx hash of the tag, while the
\* content's tx hash is the argument
UpdateUserOpEvent(chainID, op, txHash, retryCount, eventType, event, now) ==
    IF ParseUserOpEvent(event).err THEN Failed
    ELSE LET userOpEvent == ParseUserOpEvent(event).val
             eventData == [UserOpData |-> op,
                           Paymaster |-> userOpEvent.Paymaster,
                           EntryPoint |-> userOpEvent.EntryPoint,
                           Data |-> userOpEvent.Data, TxHash |-> txHash,
                           EventType |-> eventType, RetryCount |-> retryCount,
                           Tags |-> <<StrUserOp, StrUserOp006, StrEvm,
                                      BigString(chainID), StrAccountAbstraction,
                                      StrUpdate>>]
         IN  IF MarshalUserOpEvent(eventData).err THEN Failed
             ELSE IF GetHash(op, chainID).panic THEN Panicked
             ELSE Returned([CreatedAt |-> now, Kind |-> EventUserOpKind,
                            Tags |-> UserOpTags(chainID, op, userOpEvent.Paymaster,
                                                userOpEvent.EntryPoint,
                                                userOpEvent.TxHash,
                                                StrAltUpdate \o eventType
                                                  \o StrAltOnChain \o BigString(chainID)),
                            Content |-> MarshalUserOpEvent(eventData).doc])

\* the number of UpdateUserOpEvent calls in a row
MaxUpdates == 2

\* addresses whose hex digits are 0 to 9
AddrA == Repeat(17, 20)
AddrB == Repeat(34, 20)

\* a user operation with these fields, the others fixed and not nil
UserOpOf(sender, nonce, callData) ==
    [Sender |-> sender, Nonce |-> nonce, InitCode |-> <<>>, CallData |-> callData,
     CallGasLimit |-> BigNat(<<16>>), VerificationGasLimit |-> BigNat(<<1, 0>>),
     PreVerificationGas |-> BigNat(<<>>), MaxFeePerGas |-> BigNat(<<2>>),
     MaxPriorityFeePerGas |-> BigNat(<<1>>), PaymasterAndData |-> <<>>,
     Signature |-> <<171>>]

UserOpSamples ==
    {UserOpOf(s, n, c) : s \in {AddrA, AddrB},
                         n \in {BigNat(<<1>>), BigNat(<<2>>), NilBigInt},
                         c \in {<<>>, <<1, 2>>}}

TxHashPtrs == {NilPtr, Ptr(StrTxA), Ptr(StrTxB)}

\* the arguments of CreateUserOpEvent
UserOpArgs ==
    {[chainID |-> c, paymaster |-> pe[1], entryPoint |-> pe[2], data |-> d,
      txHash |-> t, retryCount |-> r, op |-> o,
      eventType |-> EventTypeUserOpRequested] :
        c \in {BigNat(<<1>>), BigNat(<<5>>)},
        pe \in {<<NilPtr, NilPtr>>, <<Ptr(AddrA), Ptr(AddrB)>>},
        d \in {NilData, JObj(<<<<StrTo, JStr(Str5)>>>>)},
        t \in {NilPtr, Ptr(StrTxA)},
        r \in {0, 1},
        o \in UserOpSamples}

NotParsed == [of |-> "none"]
NoUpdate == [n |-> 0]

\* a call that returned an event
IsReturned(r) == ~r.err /\ "evt" \in DOMAIN r

UserOpEvInit ==
    /\ pc = "start"
    /\ opArgs \in UserOpArgs
    /\ opEvent = [origin |-> "none"]
    /\ opParsed = NotParsed
    /\ opUpdate = NoUpdate
    /\ FlattenUnused /\ CanonUnused /\ HashUnused /\ NeventUnused /\ OpUnused /\ MarshalCallUnused /\ ReplyUnused /\ GroupEvUnused /\ TransferUnused
    /\ ConcUnused /\ TxLogUnused /\ GroupIdUnused /\ MarshalCallUnused /\ ReplyUnused /\ GroupEvUnused /\ TransferUnused

\* CreateUserOpEvent with the arguments
CallCreateUserOpEvent ==
    /\ pc = "start"
    /\ opEvent' = [origin |-> "created",
                   res |-> CreateUserOpEvent(opArgs.chainID, opArgs.paymaster,
                              opArgs.entryPoint, opArgs.data, opArgs.txHash,
                              opArgs.retryCount, opArgs.op, opArgs.eventType, 1)]
    /\ pc' = "event"
    /\ UNCHANGED <<opArgs, opParsed, opUpdate>>
    /\ UNCHANGED <<flattenVars, canonVars, hashVars, neventVars, opVars, concVars,
                   txLogVars, groupIdVars, marshalVars, replyVars, groupEvVars, transferVars>>

\* an event for the arguments that comes from a relay, its user_op_data in
\* the form (*UserOp).MarshalJSON writes and (*UserOp).UnmarshalJSON reads
ReceiveUserOpEvent ==
    /\ pc = "start"
    /\ IsReturned(CreateUserOpEvent(opArgs.chainID, opArgs.paymaster,
                     opArgs.entryPoint, opArgs.data, opArgs.txHash,
                     opArgs.retryCount, opArgs.op, opArgs.eventType, 1))
    /\ LET evt == CreateUserOpEvent(opArgs.chainID, opArgs.paymaster,
                     opArgs.entryPoint, opArgs.data, opArgs.txHash,
                     opArgs.retryCount, opArgs.op, opArgs.eventType, 1).evt
           eventData == [UserOpData |-> opArgs.op, Paymaster |-> opArgs.paymaster,
                         EntryPoint |-> opArgs.entryPoint, Data |-> opArgs.data,
                         TxHash |-> opArgs.txHash, EventType |-> opArgs.eventType,
                         RetryCount |-> opArgs.retryCount,
                         Tags |-> <<StrUserOp, StrUserOp006, StrEvm,
                                    BigString(opArgs.chainID), StrAccountAbstraction>>]
       IN  opEvent' = [origin |-> "received",
                       res |-> Returned([evt EXCEPT !.Content =
                                  JObj(UserOpEventMembers(eventData,
                                          MarshalJSONUserOp(opArgs.op)))])]
    /\ pc' = "event"
    /\ UNCHANGED <<opArgs, opParsed, opUpdate>>
    /\ UNCHANGED <<flattenVars, canonVars, hashVars, neventVars, opVars, concVars,
                   txLogVars, groupIdVars, marshalVars, replyVars, groupEvVars, transferVars>>

\* ParseUserOpEvent on the event at hand
CallParseUserOpEvent ==
    /\ pc = "event"
    /\ IsReturned(opEvent.res)
    /\ opParsed = NotParsed
    /\ opParsed' = [of |-> opEvent.origin, res |-> ParseUserOpEvent(opEvent.res.evt)]
    /\ UNCHANGED <<pc, opArgs, opEvent, opUpdate>>
    /\ UNCHANGED <<flattenVars, canonVars, hashVars, neventVars, opVars, concVars,
                   txLogVars, groupIdVars, marshalVars, replyVars, groupEvVars, transferVars>>

\* UpdateUserOpEvent on the event at hand, for the operation of the
\* arguments or one that differs in its call data; the event it returns is
\* the one at hand from then on
CallUpdateUserOpEvent ==
    /\ pc = "event"
    /\ IsReturned(opEvent.res)
    /\ opUpdate.n < MaxUpdates
    /\ \E txHash \in TxHashPtrs, callData \in {<<>>, <<1, 2>>} :
          LET op == [opArgs.op EXCEPT !.CallData = callData]
              res == UpdateUserOpEvent(opArgs.chainID, op, txHash, opUpdate.n + 1,
                                       EventTypeUserOpSubmitted, opEvent.res.evt, 2)
          IN  /\ opUpdate' = [n |-> opUpdate.n + 1, op |-> op, txHash |-> txHash,
                              original |-> opEvent, res |-> res]
              /\ opEvent' = IF IsReturned(res) THEN [origin |-> "updated", res |-> res]
                            ELSE opEvent
    /\ opParsed' = NotParsed
    /\ UNCHANGED <<pc, opArgs>>
    /\ UNCHANGED <<flattenVars, canonVars, hashVars, neventVars, opVars, concVars,
                   txLogVars, groupIdVars, marshalVars, replyVars, groupEvVars, transferVars>>

UserOpEvNext ==
    \/ CallCreateUserOpEvent
    \/ ReceiveUserOpEvent
    \/ CallParseUserOpEvent
    \/ CallUpdateUserOpEvent

SpecUserOpEvent == UserOpEvInit /\ [][UserOpEvNext]_vars

\* the numeric fields of the operation are not nil
NumericFieldsSet(op) == \A i \in 1..Len(BigFields) : ~op[BigFields[i][1]].nil

\* the parsed event's data are the arguments'
ParsedEqualsArguments(val) ==
    /\ val.UserOpData = opArgs.op
    /\ val.Paymaster = opArgs.paymaster
    /\ val.EntryPoint = opArgs.entryPoint
    /\ val.TxHash = opArgs.txHash
    /\ val.RetryCount = opArgs.retryCount
    /\ val.EventType = opArgs.eventType

\* C23: for a user operation with non-nil numeric fields, ParseUserOpEvent on
\* the event CreateUserOpEvent returned succeeds and returns the arguments'
\* user operation, paymaster, entry point, tx hash, retry count and event
\* type, and UpdateUserOpEvent on an event CreateUserOpEvent returned succeeds
C23_UserOpRoundTrip ==
    /\ (opParsed.of = "created" /\ NumericFieldsSet(opArgs.op))
          => (~opParsed.res.err /\ ParsedEqualsArguments(opParsed.res.val))
    /\ (opUpdate.n > 0 /\ opUpdate.original.origin = "created"
          /\ NumericFieldsSet(opUpdate.op))
          => IsReturned(opUpdate.res)

\* the same reading of an event whose user_op_data has the text form
C23_TextFormRoundTrip ==
    (opParsed.of = "received" /\ NumericFieldsSet(opArgs.op))
        => (~opParsed.res.err /\ ParsedEqualsArguments(opParsed.res.val))

\* the value of the "d" tag of an event
DTag(evt) == evt.Tags[CHOOSE i \in 1..Len(evt.Tags) : evt.Tags[i][1] = StrD][2]

\* the event CreateUserOpEvent returns for this operation and the other
\* arguments at hand
CreatedFor(op) ==
    CreateUserOpEvent(opArgs.chainID, opArgs.paymaster, opArgs.entryPoint,
                      opArgs.data, opArgs.txHash, opArgs.retryCount, op,
                      opArgs.eventType, 1)

\* every operation with the sender and nonce of op gets from
\* CreateUserOpEvent, for the same chain id, the "d" tag of evt
SameIdentifier(op, evt) ==
    \A o \in UserOpSamples :
        (o.Sender = op.Sender /\ o.Nonce = op.Nonce)
            => (IsReturned(CreatedFor(o)) /\ DTag(CreatedFor(o).evt) = DTag(evt))

\* C24: the "d" tag of a user-operation event depends on chain id, sender and
\* nonce only: every operation with the same sender and nonce gets the same
\* "d" tag from CreateUserOpEvent for the same chain id, and the event of
\* UpdateUserOpEvent for an operation has the "d" tag of the event of
\* CreateUserOpEvent for that operation
C24_IdentifierFromChainSenderNonce ==
    /\ (opEvent.origin = "created" /\ IsReturned(opEvent.res))
          => SameIdentifier(opArgs.op, opEvent.res.evt)
    /\ (opUpdate.n > 0 /\ IsReturned(opUpdate.res))
          => SameIdentifier(opUpdate.op, opUpdate.res.evt)

\* an update returned an event for an operation that differs from the
\* created one in its call data
C24_Witness ==
    /\ opUpdate.n > 0
    /\ IsReturned(opUpdate.res)
    /\ opUpdate.op # opArgs.op
    /\ opUpdate.op.Sender = opArgs.op.Sender
    /\ opUpdate.op.Nonce = opArgs.op.Nonce

\* the values of the "t" tags of an event that are not its type tags
TxHashTags(evt) ==
    {evt.Tags[i][2] : i \in {n \in 1..Len(evt.Tags) : evt.Tags[n][1] = StrT}}
        \ {StrUserOp, StrUserOp006, StrAccountAbstraction}

\* the event has a ("t", txHash) tag exactly when its content has a tx_hash,
\* and the tag's value is that tx_hash
TxHashTagAgrees(evt) ==
    IF HasMember(evt.Content, StrTxHash)
    THEN TxHashTags(evt) = {MemberValue(evt.Content, StrTxHash).str}
    ELSE TxHashTags(evt) = {}

\* C25: in every event CreateUserOpEvent or UpdateUserOpEvent returns, after
\* any sequence of updates, the tx-hash tag agrees with the content's
\* tx_hash
C25_TxHashTagAgreesWithContent ==
    /\ (opEvent.origin = "created" /\ IsReturned(opEvent.res))
          => TxHashTagAgrees(opEvent.res.evt)
    /\ (opUpdate.n > 0 /\ IsReturned(opUpdate.res))
          => TxHashTagAgrees(opUpdate.res.evt)

\* the same for the events of CreateUserOpEvent alone
C25_CreatedTxHashTagAgrees ==
    (opEvent.origin = "created" /\ IsReturned(opEvent.res))
        => TxHashTagAgrees(opEvent.res.evt)

-----------------------------------------------------------------------------
(* MarshalJSON of neth.Log: the method hands its own receiver to            *)
(* json.Marshal, which calls the MarshalJSON of a pointer that is not nil.  *)

\* the number of frames after which the runtime ends the program with
\* "stack overflow"
MaxFrames == 12

\* the receivers: logs, and the nil pointer
Receivers == {Ptr(l) : l \in NethLogs} \cup {NilPtr}

\* json.Marshal(t) for t of type *Log: "null" for the nil pointer; for
\* another the encoder calls t.MarshalJSON()
MarshalCallsMarshalJSON(t) == ~t.nil

MarshalCallInit ==
    /\ pc = "start"
    /\ receiver \in Receivers
    /\ depth = 0
    /\ outcome = [state |-> "none"]
    /\ FlattenUnused /\ CanonUnused /\ HashUnused /\ NeventUnused /\ OpUnused /\ ReplyUnused /\ GroupEvUnused /\ TransferUnused
    /\ ConcUnused /\ TxLogUnused /\ GroupIdUnused /\ UserOpEvUnused /\ ReplyUnused /\ GroupEvUnused /\ TransferUnused

\* t.MarshalJSON() is called: the call by the program, and every call by
\* the encoder that json.Marshal(t) of the frame below runs
EnterMarshalJSON ==
    /\ pc \in {"start", "marshal"}
    /\ pc = "marshal" => MarshalCallsMarshalJSON(receiver)
    /\ depth < MaxFrames
    /\ depth' = depth + 1
    /\ pc' = "marshal"
    /\ UNCHANGED <<receiver, outcome>>
    /\ UNCHANGED <<flattenVars, canonVars, hashVars, neventVars, opVars, concVars,
                   txLogVars, groupIdVars, userOpEvVars, replyVars, groupEvVars, transferVars>>

\* json.Marshal(t) returns to the top frame, which returns b: only for the
\* nil pointer does the encoder not call MarshalJSON
ReturnMarshalJSON ==
    /\ pc = "marshal"
    /\ ~MarshalCallsMarshalJSON(receiver)
    /\ depth' = depth - 1
    /\ outcome' = [state |-> "returned", doc |-> JNull]
    /\ pc' = "done"
    /\ UNCHANGED receiver
    /\ UNCHANGED <<flattenVars, canonVars, hashVars, neventVars, opVars, concVars,
                   txLogVars, groupIdVars, userOpEvVars, replyVars, groupEvVars, transferVars>>

\* the stack is full: the runtime ends the program
StackOverflow ==
    /\ pc = "marshal"
    /\ MarshalCallsMarshalJSON(receiver)
    /\ depth = MaxFrames
    /\ outcome' = [state |-> "stack overflow"]
    /\ pc' = "done"
    /\ UNCHANGED <<receiver, depth>>
    /\ UNCHANGED <<flattenVars, canonVars, hashVars, neventVars, opVars, concVars,
                   txLogVars, groupIdVars, userOpEvVars, replyVars, groupEvVars, transferVars>>

MarshalCallNext ==
    \/ EnterMarshalJSON
    \/ ReturnMarshalJSON
    \/ StackOverflow

SpecMarshalCall == MarshalCallInit /\ [][MarshalCallNext]_vars

\* C26: MarshalJSON on a log ends by returning, never in a stack overflow,
\* and what it returns is the JSON encoding of the log's fields
C26_LogMarshalJSONReturnsEncoding ==
    ~receiver.nil =>
        /\ outcome.state # "stack overflow"
        /\ outcome.state = "returned"
              => (~MarshalLog(receiver.v).err /\ outcome.doc = MarshalLog(receiver.v).doc)

-----------------------------------------------------------------------------
(* Replies (package event, message.go).                                      *)

\* "root"
StrRoot == <<114, 111, 111, 116>>
\* "message"
StrMessage == <<109, 101, 115, 115, 97, 103, 101>>
\* "text"
StrText == <<116, 101, 120, 116>>
\* "h"
StrH == <<104>>
\* "id-root"
IdRoot == <<105, 100, 45, 114, 111, 111, 116>>
\* "id-parent"
IdParent == <<105, 100, 45, 112, 97, 114, 101, 110, 116>>
\* "id-other"
IdOther == <<105, 100, 45, 111, 116, 104, 101, 114>>
\* "alice"
PubKeyAlice == <<97, 108, 105, 99, 101>>
\* "bob"
PubKeyBob == <<98, 111, 98>>
\* "hello"
StrHello == <<104, 101, 108, 108, 111>>
\* "id-reply-"
StrIdPrefix == <<105, 100, 45, 114, 101, 112, 108, 121, 45>>

\* the number of replies made one to the other
MaxReplies == 2

\* findRootEvent(event): the event itself, with a root marker among its
\* tags or without
findRootEvent(event) ==
    IF \E i \in 1..Len(event.Tags) :
          Len(event.Tags[i]) >= 4 /\ event.Tags[i][1] = StrE /\ event.Tags[i][4] = StrRoot
    THEN event
    ELSE event

\* getParticipantsFromEvent(event): the keys of the map of "p" tag values
getParticipantsFromEvent(event) ==
    {event.Tags[i][2] : i \in {n \in 1..Len(event.Tags) :
                                  Len(event.Tags[n]) >= 2 /\ event.Tags[n][1] = StrP}}

\* CreateReplyEvent(content, group, replyTo): the events it can return, one
\* for each order the participants map is ranged over; the event has no ID
\* and no PubKey yet
CreateReplyEvent(content, group, replyTo, now) ==
    LET rootEvent == findRootEvent(replyTo.v)
        threading ==
            IF replyTo.nil THEN {<<>>}
            ELSE {<<<<StrE, replyTo.v.ID, <<>>, StrReply, replyTo.v.PubKey>>>>
                    \o (IF rootEvent.ID # replyTo.v.ID
                        THEN <<<<StrE, rootEvent.ID, <<>>, StrRoot, rootEvent.PubKey>>>>
                        ELSE <<>>)
                    \o [i \in 1..Len(ps) |-> <<StrP, ps[i]>>] :
                  ps \in Perms(getParticipantsFromEvent(replyTo.v))}
    IN  {[ID |-> <<>>, PubKey |-> <<>>, CreatedAt |-> now, Kind |-> 1,
          Tags |-> th \o <<<<StrT, StrMessage>>, <<StrT, StrText>>, <<StrT, StrReply>>>>
                      \o (IF group.nil THEN <<>> ELSE <<<<StrH, group.v>>>>),
          Content |-> content] : th \in threading}

RECURSIVE ReplyChainFrom(_, _, _)
\* the loop of GetReplyChainFromEvent from tag i on
ReplyChainFrom(evtTags, i, acc) ==
    IF i > Len(evtTags) THEN acc
    ELSE LET tag == evtTags[i]
         IN  ReplyChainFrom(evtTags, i + 1,
                IF Len(tag) >= 4 /\ tag[1] = StrE
                THEN (IF tag[4] = StrReply THEN [acc EXCEPT !.replyTo = tag[2]]
                      ELSE IF tag[4] = StrRoot THEN [acc EXCEPT !.root = tag[2]]
                      ELSE acc)
                ELSE acc)

\* GetReplyChainFromEvent(evt): the last reply and the last root reference
GetReplyChainFromEvent(evt) ==
    ReplyChainFrom(evt.Tags, 1, [replyTo |-> <<>>, root |-> <<>>])

\* events one can reply to: the root of a thread, and events of the thread
\* under root IdRoot, which carry the root marker (and a reply marker when
\* their parent is not the root)
ReplyTargets ==
    LET rootTag == <<StrE, IdRoot, <<>>, StrRoot, PubKeyAlice>>
        replyTag == <<StrE, IdOther, <<>>, StrReply, PubKeyBob>>
    IN  {[ID |-> IdRoot, PubKey |-> PubKeyAlice, CreatedAt |-> 0, Kind |-> 1,
          Tags |-> ptags, Content |-> StrHello] :
            ptags \in {<<>>, <<<<StrP, PubKeyBob>>>>}}
        \cup
        {[ID |-> IdParent, PubKey |-> PubKeyBob, CreatedAt |-> 0, Kind |-> 1,
          Tags |-> etags \o ptags, Content |-> StrHello] :
            etags \in {<<rootTag>>, <<replyTag, rootTag>>, <<rootTag, replyTag>>},
            ptags \in {<<>>, <<<<StrP, PubKeyAlice>>>>,
                       <<<<StrP, PubKeyAlice>>, <<StrP, PubKeyBob>>>>}}

ReplyInit ==
    /\ pc = "start"
    /\ replyArgs \in [content : {<<>>, StrHello},
                      group : {NilPtr, Ptr(StrMyGroup)},
                      replyTo : {NilPtr} \cup {Ptr(t) : t \in ReplyTargets}]
    /\ reply = NotCalled
    /\ chain = NotCalled
    /\ replies = 0
    /\ FlattenUnused /\ CanonUnused /\ HashUnused /\ NeventUnused /\ OpUnused /\ GroupEvUnused /\ TransferUnused
    /\ ConcUnused /\ TxLogUnused /\ GroupIdUnused /\ UserOpEvUnused /\ MarshalCallUnused /\ GroupEvUnused /\ TransferUnused

CallCreateReplyEvent ==
    /\ pc = "start"
    /\ \E evt \in CreateReplyEvent(replyArgs.content, replyArgs.group,
                                   replyArgs.replyTo, 1) :
          reply' = [called |-> TRUE, evt |-> evt]
    /\ pc' = "created"
    /\ UNCHANGED <<replyArgs, chain, replies>>
    /\ UNCHANGED <<flattenVars, canonVars, hashVars, neventVars, opVars, concVars,
                   txLogVars, groupIdVars, userOpEvVars, marshalVars, groupEvVars, transferVars>>

CallGetReplyChainFromEvent ==
    /\ pc = "created"
    /\ chain = NotCalled
    /\ chain' = [called |-> TRUE, res |-> GetReplyChainFromEvent(reply.evt)]
    /\ UNCHANGED <<pc, replyArgs, reply, replies>>
    /\ UNCHANGED <<flattenVars, canonVars, hashVars, neventVars, opVars, concVars,
                   txLogVars, groupIdVars, userOpEvVars, marshalVars, groupEvVars, transferVars>>

\* the reply is signed, which gives it its ID and PubKey, and is the event
\* the next reply is made to
ReplyToReply ==
    /\ pc = "created"
    /\ replies < MaxReplies
    /\ \E key \in {PubKeyAlice, PubKeyBob} :
          replyArgs' = [replyArgs EXCEPT
                           !.replyTo = Ptr([reply.evt EXCEPT
                                               !.ID = StrIdPrefix \o <<49 + replies>>,
                                               !.PubKey = key])]
    /\ replies' = replies + 1
    /\ reply' = NotCalled
    /\ chain' = NotCalled
    /\ pc' = "start"
    /\ UNCHANGED <<flattenVars, canonVars, hashVars, neventVars, opVars, concVars,
                   txLogVars, groupIdVars, userOpEvVars, marshalVars, groupEvVars, transferVars>>

ReplyNext ==
    \/ CallCreateReplyEvent
    \/ CallGetReplyChainFromEvent
    \/ ReplyToReply

SpecReply == ReplyInit /\ [][ReplyNext]_vars

\* the events an "e" tag of the event with this marker references
Referenced(evt, marker) ==
    {evt.Tags[i][2] : i \in {n \in 1..Len(evt.Tags) :
                                /\ Len(evt.Tags[n]) >= 4
                                /\ evt.Tags[n][1] = StrE
                                /\ evt.Tags[n][4] = marker}}

\* a reply to an event was created
Replied == reply # NotCalled /\ ~replyArgs.replyTo.nil

\* C27: a reply to an event that carries an "e" tag marked "root" for R
\* carries an "e" tag marked "reply" for the parent and an "e" tag marked
\* "root" for R; a reply to an event that is the root of its thread carries
\* the "reply" tag only
C27_ReplyThreading ==
    Replied =>
        /\ Referenced(reply.evt, StrReply) = {replyArgs.replyTo.v.ID}
        /\ Referenced(reply.evt, StrRoot) = Referenced(replyArgs.replyTo.v, StrRoot)

\* the part about the parent: the "reply" tag references it, and a reply to
\* the root of a thread has no "root" tag
C27_ReplyTagToParent ==
    Replied =>
        /\ Referenced(reply.evt, StrReply) = {replyArgs.replyTo.v.ID}
        /\ Referenced(replyArgs.replyTo.v, StrRoot) = {}
              => Referenced(reply.evt, StrRoot) = {}

-----------------------------------------------------------------------------
(* Group events (package event, group.go).  The texts of this part are     *)
(* never taken apart, so they are written as strings.                      *)

KindGroupAddUser == 9000
KindGroupRemoveUser == 9001
KindGroupEditMetadata == 9002
KindGroupAddAdmin == 9003
KindGroupRemoveAdmin == 9004
KindGroupDeleteEvent == 9005
KindGroupUpdateStatus == 9006
KindGroupCreate == 9007
KindGroupDelete == 9008
KindGroupJoinRequest == 9021
KindGroupMetadata == 39000
KindGroupName == 39001
KindGroupAbout == 39002
KindGroupPicture == 39003
KindGroupAdmins == 39004
KindGroupModerators == 39005
KindGroupPrivate == 39006
KindGroupClosed == 39007
KindGroupCreated == 39008
KindGroupUpdated == 39009

\* IsGroupEvent for the kinds that follow one another, without the join
\* request
IsGroupEventInRanges(evt) ==
    \/ evt.Kind \in KindGroupAddUser..KindGroupDelete
    \/ evt.Kind \in KindGroupMetadata..KindGroupUpdated

\* IsGroupEvent(evt): the moderation kinds, then the metadata kinds
IsGroupEvent(evt) ==
    IF \/ evt.Kind = KindGroupAddUser
       \/ evt.Kind = KindGroupRemoveUser
       \/ evt.Kind = KindGroupEditMetadata
       \/ evt.Kind = KindGroupAddAdmin
       \/ evt.Kind = KindGroupRemoveAdmin
       \/ evt.Kind = KindGroupDeleteEvent
       \/ evt.Kind = KindGroupUpdateStatus
       \/ evt.Kind = KindGroupCreate
       \/ evt.Kind = KindGroupDelete
       \/ evt.Kind = KindGroupJoinRequest
    THEN TRUE
    ELSE IF \/ evt.Kind = KindGroupMetadata
            \/ evt.Kind = KindGroupName
            \/ evt.Kind = KindGroupAbout
            \/ evt.Kind = KindGroupPicture
            \/ evt.Kind = KindGroupAdmins
            \/ evt.Kind = KindGroupModerators
            \/ evt.Kind = KindGroupPrivate
            \/ evt.Kind = KindGroupClosed
            \/ evt.Kind = KindGroupCreated
            \/ evt.Kind = KindGroupUpdated
    THEN TRUE
    ELSE FALSE

\* GetEventTypeFromGroupEvent(evt): the switch on evt.Kind
GetEventTypeFromGroupEvent(evt) ==
    CASE evt.Kind = KindGroupAddUser -> "add_user"
      [] evt.Kind = KindGroupRemoveUser -> "remove_user"
      [] evt.Kind = KindGroupEditMetadata -> "edit_metadata"
      [] evt.Kind = KindGroupAddAdmin -> "add_admin"
      [] evt.Kind = KindGroupRemoveAdmin -> "remove_admin"
      [] evt.Kind = KindGroupDeleteEvent -> "delete_event"
      [] evt.Kind = KindGroupUpdateStatus -> "update_group_status"
      [] evt.Kind = KindGroupCreate -> "create_group"
      [] evt.Kind = KindGroupDelete -> "delete_group"
      [] evt.Kind = KindGroupJoinRequest -> "join_request"
      [] evt.Kind = KindGroupMetadata -> "group_metadata"
      [] evt.Kind = KindGroupName -> "group_name"
      [] evt.Kind = KindGroupAbout -> "group_about"
      [] evt.Kind = KindGroupPicture -> "group_picture"
      [] evt.Kind = KindGroupAdmins -> "group_admins"
      [] evt.Kind = KindGroupModerators -> "group_moderators"
      [] evt.Kind = KindGroupPrivate -> "group_private"
      [] evt.Kind = KindGroupClosed -> "group_closed"
      [] evt.Kind = KindGroupCreated -> "group_created"
      [] evt.Kind = KindGroupUpdated -> "group_updated"
      [] OTHER -> "unknown"

\* a JSON number of a time or count
JInt(n) == JNum(FALSE, Digits(n), <<>>)

\* a []string as encoding/json writes it: null for a slice without elements
\* (nil), else the array of the texts
JStrings(list) == IF list = <<>> THEN JNull ELSE JArr([i \in 1..Len(list) |-> JStr(list[i])])

\* json.Marshal of a GroupMetadata: omitempty leaves out an empty about and
\* picture, empty admins and moderators and a false private and closed
MarshalGroupMetadata(m) ==
    JObj(<<<<"name", JStr(m.Name)>>>>
         \o (IF m.About = "" THEN <<>> ELSE <<<<"about", JStr(m.About)>>>>)
         \o (IF m.Picture = "" THEN <<>> ELSE <<<<"picture", JStr(m.Picture)>>>>)
         \o (IF m.Admins = <<>> THEN <<>> ELSE <<<<"admins", JStrings(m.Admins)>>>>)
         \o (IF m.Moderators = <<>> THEN <<>>
             ELSE <<<<"moderators", JStrings(m.Moderators)>>>>)
         \o (IF m.Private THEN <<<<"private", JBool(TRUE)>>>> ELSE <<>>)
         \o (IF m.Closed THEN <<<<"closed", JBool(TRUE)>>>> ELSE <<>>)
         \o <<<<"created_at", JInt(m.CreatedAt)>>, <<"updated_at", JInt(m.UpdatedAt)>>>>)

\* a content that is a plain text, no JSON document written by json.Marshal
JText(s) == [j |-> "text", str |-> s]

\* the event a constructor returns
GroupEventOf(kind, evtTags, content, now) ==
    [CreatedAt |-> now, Kind |-> kind, Tags |-> evtTags, Content |-> content]

\* the ("p", user, role) tags of a list of users
RoleTags(users, role) == [i \in 1..Len(users) |-> <<"p", users[i], role>>]

\* the tags of CreateGroupEvent and CreateEditMetadataEvent
MetadataTags(groupID, admins, moderators, typeTag, private, closed) ==
    <<<<"h", groupID>>>> \o RoleTags(admins, "admin") \o RoleTags(moderators, "moderator")
      \o <<<<"t", "group">>, <<"t", typeTag>>>>
      \o (IF private THEN <<<<"t", "private">>>> ELSE <<>>)
      \o (IF closed THEN <<<<"t", "closed">>>> ELSE <<>>)

GroupMetadataOf(name, about, picture, admins, moderators, private, closed, now) ==
    [Name |-> name, About |-> about, Picture |-> picture, Admins |-> admins,
     Moderators |-> moderators, Private |-> private, Closed |-> closed,
     CreatedAt |-> now, UpdatedAt |-> now]

CreateGroupEvent(groupID, name, about, picture, admins, moderators, private, closed, now) ==
    GroupEventOf(KindGroupCreate,
        MetadataTags(groupID, admins, moderators, "metadata", private, closed),
        MarshalGroupMetadata(GroupMetadataOf(name, about, picture, admins, moderators,
                                             private, closed, now)), now)

CreateAddUserEvent(groupID, user, role, now) ==
    GroupEventOf(KindGroupAddUser,
        <<<<"h", groupID>>, <<"p", user, "member">>>>
          \o (IF role # "" THEN <<<<"t", role>>>> ELSE <<>>)
          \o <<<<"t", "group">>, <<"t", "add_user">>>>,
        JObj(<<<<"user", JStr(user)>>, <<"joined_at", JInt(now)>>>>
             \o (IF role = "" THEN <<>> ELSE <<<<"role", JStr(role)>>>>)), now)

CreateRemoveUserEvent(groupID, user, reason, now) ==
    GroupEventOf(KindGroupRemoveUser,
        <<<<"h", groupID>>, <<"p", user, "former_member">>,
          <<"t", "group">>, <<"t", "remove_user">>>>,
        JObj(<<<<"user", JStr(user)>>, <<"left_at", JInt(now)>>>>
             \o (IF reason = "" THEN <<>> ELSE <<<<"reason", JStr(reason)>>>>)), now)

CreateEditMetadataEvent(groupID, name, about, picture, admins, moderators, private, closed, now) ==
    GroupEventOf(KindGroupEditMetadata,
        MetadataTags(groupID, admins, moderators, "edit_metadata", private, closed),
        MarshalGroupMetadata(GroupMetadataOf(name, about, picture, admins, moderators,
                                             private, closed, now)), now)

CreateAddAdminEvent(groupID, user, now) ==
    GroupEventOf(KindGroupAddAdmin,
        <<<<"h", groupID>>, <<"p", user, "admin">>, <<"t", "group">>,
          <<"t", "add_admin">>>>, JText(""), now)

CreateRemoveAdminEvent(groupID, user, now) ==
    GroupEventOf(KindGroupRemoveAdmin,
        <<<<"h", groupID>>, <<"p", user, "former_admin">>, <<"t", "group">>,
          <<"t", "remove_admin">>>>, JText(""), now)

CreateDeleteEventEvent(groupID, eventID, now) ==
    GroupEventOf(KindGroupDeleteEvent,
        <<<<"h", groupID>>, <<"e", eventID, "delete">>, <<"t", "group">>,
          <<"t", "delete_event">>>>, JText(""), now)

CreateUpdateGroupStatusEvent(groupID, status, now) ==
    GroupEventOf(KindGroupUpdateStatus,
        <<<<"h", groupID>>, <<"t", status>>, <<"t", "group">>,
          <<"t", "update_status">>>>, JText(status), now)

CreateDeleteGroupEvent(groupID, now) ==
    GroupEventOf(KindGroupDelete,
        <<<<"h", groupID>>, <<"t", "group">>, <<"t", "delete_group">>>>, JText(""), now)

CreateJoinRequestEvent(groupID, message, now) ==
    GroupEventOf(KindGroupJoinRequest,
        <<<<"h", groupID>>, <<"t", "group">>, <<"t", "join_request">>>>,
        JText(message), now)

CreateGroupMetadataEvent(groupID, metadata, now) ==
    GroupEventOf(KindGroupMetadata,
        <<<<"h", groupID>>, <<"t", "group">>, <<"t", "metadata">>>>,
        JObj(<<<<"group_id", JStr(groupID)>>,
               <<"metadata", MarshalGroupMetadata(metadata)>>,
               <<"created_at", JInt(now)>>>>), now)

CreateGroupNameEvent(groupID, name, now) ==
    GroupEventOf(KindGroupName,
        <<<<"h", groupID>>, <<"t", "group">>, <<"t", "name">>>>,
        JObj(<<<<"group_id", JStr(groupID)>>, <<"name", JStr(name)>>,
               <<"created_at", JInt(now)>>>>), now)

CreateGroupAboutEvent(groupID, about, now) ==
    GroupEventOf(KindGroupAbout,
        <<<<"h", groupID>>, <<"t", "group">>, <<"t", "about">>>>,
        JObj(<<<<"group_id", JStr(groupID)>>, <<"about", JStr(about)>>,
               <<"created_at", JInt(now)>>>>), now)

CreateGroupPictureEvent(groupID, picture, now) ==
    GroupEventOf(KindGroupPicture,
        <<<<"h", groupID>>, <<"t", "group">>, <<"t", "picture">>>>,
        JObj(<<<<"group_id", JStr(groupID)>>, <<"picture", JStr(picture)>>,
               <<"created_at", JInt(now)>>>>), now)

CreateGroupAdminsEvent(groupID, admins, now) ==
    GroupEventOf(KindGroupAdmins,
        <<<<"h", groupID>>>> \o RoleTags(admins, "admin")
          \o <<<<"t", "group">>, <<"t", "admins">>>>,
        JObj(<<<<"group_id", JStr(groupID)>>, <<"admins", JStrings(admins)>>,
               <<"created_at", JInt(now)>>>>), now)

CreateGroupModeratorsEvent(groupID, moderators, now) ==
    GroupEventOf(KindGroupModerators,
        <<<<"h", groupID>>>> \o RoleTags(moderators, "moderator")
          \o <<<<"t", "group">>, <<"t", "moderators">>>>,
        JObj(<<<<"group_id", JStr(groupID)>>, <<"moderators", JStrings(moderators)>>,
               <<"created_at", JInt(now)>>>>), now)

\* CreateGroupPrivateEvent: the type tags "group" and "private", and
\* ("t", "private") once more for a private group
CreateGroupPrivateEvent(groupID, private, now) ==
    GroupEventOf(KindGroupPrivate,
        <<<<"h", groupID>>, <<"t", "group">>, <<"t", "private">>>>
          \o (IF private THEN <<<<"t", "private">>>> ELSE <<>>),
        JObj(<<<<"group_id", JStr(groupID)>>, <<"private", JBool(private)>>,
               <<"created_at", JInt(now)>>>>), now)

\* CreateGroupClosedEvent: the type tags "group" and "closed", and
\* ("t", "closed") once more for a closed group
CreateGroupClosedEvent(groupID, closed, now) ==
    GroupEventOf(KindGroupClosed,
        <<<<"h", groupID>>, <<"t", "group">>, <<"t", "closed">>>>
          \o (IF closed THEN <<<<"t", "closed">>>> ELSE <<>>),
        JObj(<<<<"group_id", JStr(groupID)>>, <<"closed", JBool(closed)>>,
               <<"created_at", JInt(now)>>>>), now)

CreateGroupCreatedEvent(groupID, createdAt, now) ==
    GroupEventOf(KindGroupCreated,
        <<<<"h", groupID>>, <<"t", "group">>, <<"t", "created">>>>,
        JObj(<<<<"group_id", JStr(groupID)>>, <<"created_at", JInt(createdAt)>>>>), now)

CreateGroupUpdatedEvent(groupID, updatedAt, now) ==
    GroupEventOf(KindGroupUpdated,
        <<<<"h", groupID>>, <<"t", "group">>, <<"t", "updated">>>>,
        JObj(<<<<"group_id", JStr(groupID)>>, <<"updated_at", JInt(updatedAt)>>,
               <<"created_at", JInt(now)>>>>), now)

\* the fields of the structs the contents are read into, with the kind of
\* JSON value each takes
GroupMetadataFields ==
    <<<<"name", "string">>, <<"about", "string">>, <<"picture", "string">>,
      <<"admins", "array">>, <<"moderators", "array">>, <<"private", "bool">>,
      <<"closed", "bool">>, <<"created_at", "number">>, <<"updated_at", "number">>>>
GroupJoinFields == <<<<"user", "string">>, <<"joined_at", "number">>, <<"role", "string">>>>
GroupLeaveFields == <<<<"user", "string">>, <<"left_at", "number">>, <<"reason", "string">>>>
GroupMetadataEventFields ==
    <<<<"group_id", "string">>, <<"metadata", "object">>, <<"created_at", "number">>>>
GroupTextEventFields(name) ==
    <<<<"group_id", "string">>, <<name, "string">>, <<"created_at", "number">>>>
GroupListEventFields(name) ==
    <<<<"group_id", "string">>, <<name, "array">>, <<"created_at", "number">>>>
GroupFlagEventFields(name) ==
    <<<<"group_id", "string">>, <<name, "bool">>, <<"created_at", "number">>>>
GroupCreatedEventFields == <<<<"group_id", "string">>, <<"created_at", "number">>>>
GroupUpdatedEventFields ==
    <<<<"group_id", "string">>, <<"updated_at", "number">>, <<"created_at", "number">>>>

\* a member fits its field: null fits every field, a []string takes an
\* array of texts, the metadata field an object that fits GroupMetadata
FitsField(m, kind) ==
    \/ m.j = "null"
    \/ m.j = kind /\ kind \in {"string", "number", "bool"}
    \/ /\ kind = "array" /\ m.j = "array"
       /\ \A i \in 1..Len(m.items) : m.items[i].j \in {"string", "null"}
    \/ /\ kind = "object" /\ m.j = "object"
       /\ \A i \in 1..Len(GroupMetadataFields) :
             HasMember(m, GroupMetadataFields[i][1])
                => LET inner == MemberValue(m, GroupMetadataFields[i][1])
                       k == GroupMetadataFields[i][2]
                   IN  \/ inner.j = "null"
                       \/ inner.j = k /\ k # "array"
                       \/ /\ k = "array" /\ inner.j = "array"
                          /\ \A n \in 1..Len(inner.items) :
                                inner.items[n].j \in {"string", "null"}

\* json.Unmarshal([]byte(evt.Content), &v) for a struct v with these fields:
\* an error for a content that is no JSON document and for a member that
\* does not fit its field
UnmarshalFails(content, fields) ==
    \/ content.j \notin {"object", "null"}
    \/ /\ content.j = "object"
       /\ \E i \in 1..Len(fields) :
             /\ HasMember(content, fields[i][1])
             /\ ~FitsField(MemberValue(content, fields[i][1]), fields[i][2])

\* the body all Parse functions share: the error for an event of another
\* kind, then the error of json.Unmarshal, else the struct, here by the
\* members that were read
ParseAs(evt, kind, fields) ==
    IF evt.Kind # kind THEN [err |-> "wrong kind"]
    ELSE IF UnmarshalFails(evt.Content, fields) THEN [err |-> "unmarshal"]
    ELSE [err |-> "none",
          val |-> IF evt.Content.j = "null" THEN <<>>
                  ELSE SelectSeq(evt.Content.members,
                          LAMBDA m : \E i \in 1..Len(fields) : fields[i][1] = m[1])]

ParseGroupEvent(evt) == ParseAs(evt, KindGroupCreate, GroupMetadataFields)
ParseEditMetadataEvent(evt) == ParseAs(evt, KindGroupEditMetadata, GroupMetadataFields)
ParseAddUserEvent(evt) == ParseAs(evt, KindGroupAddUser, GroupJoinFields)
ParseRemoveUserEvent(evt) == ParseAs(evt, KindGroupRemoveUser, GroupLeaveFields)
ParseGroupMetadataEvent(evt) == ParseAs(evt, KindGroupMetadata, GroupMetadataEventFields)
ParseGroupNameEvent(evt) == ParseAs(evt, KindGroupName, GroupTextEventFields("name"))
ParseGroupAboutEvent(evt) == ParseAs(evt, KindGroupAbout, GroupTextEventFields("about"))
ParseGroupPictureEvent(evt) == ParseAs(evt, KindGroupPicture, GroupTextEventFields("picture"))
ParseGroupAdminsEvent(evt) == ParseAs(evt, KindGroupAdmins, GroupListEventFields("admins"))
ParseGroupModeratorsEvent(evt) == ParseAs(evt, KindGroupModerators, GroupListEventFields("moderators"))
ParseGroupPrivateEvent(evt) == ParseAs(evt, KindGroupPrivate, GroupFlagEventFields("private"))
ParseGroupClosedEvent(evt) == ParseAs(evt, KindGroupClosed, GroupFlagEventFields("closed"))
ParseGroupCreatedEvent(evt) == ParseAs(evt, KindGroupCreated, GroupCreatedEventFields)
ParseGroupUpdatedEvent(evt) == ParseAs(evt, KindGroupUpdated, GroupUpdatedEventFields)

\* the longest list of admins the model gives a constructor
MaxAdmins == 2

GroupID == "my-group"
Users == {"alice", "bob"}
Abouts == {"", "About"}
Roles == {"", "admin", "group"}
UserLists == UNION {[1..n -> Users] : n \in 0..MaxAdmins}
ModeratorLists == {<<>>, <<"bob">>}

\* kinds of events that come from a relay: kinds no group constant names,
\* and group kinds
ReceivedKinds ==
    {0, 1, 8999, 9009, 9020, 9022, 30000, 38999, 39010, 111001,
     KindGroupAddAdmin, KindGroupCreate, KindGroupPrivate}

GroupEvInit ==
    /\ pc = "start"
    /\ groupEvent = NotCalled
    /\ groupParsed = NotCalled
    /\ isGroup = NotCalled
    /\ groupType = NotCalled
    /\ FlattenUnused /\ CanonUnused /\ HashUnused /\ NeventUnused /\ OpUnused /\ TransferUnused
    /\ ConcUnused /\ TxLogUnused /\ GroupIdUnused /\ UserOpEvUnused /\ MarshalCallUnused /\ TransferUnused
    /\ ReplyUnused

CallCreateGroupEvent ==
    /\ pc = "start"
    /\ \E about \in Abouts, admins \in UserLists, moderators \in ModeratorLists, private \in BOOLEAN, closed \in BOOLEAN :
          groupEvent' = [called |-> TRUE, from |-> "CreateGroupEvent",
                               args |-> [admins |-> admins, moderators |-> moderators, private |-> private, closed |-> closed],
                               evt |-> CreateGroupEvent(GroupID, "Group", about, "", admins, moderators, private, closed, 1)]
    /\ pc' = "event"
    /\ UNCHANGED <<groupParsed, isGroup, groupType>>
    /\ UNCHANGED <<flattenVars, canonVars, hashVars, neventVars, opVars, concVars,
                   txLogVars, groupIdVars, userOpEvVars, marshalVars, replyVars, transferVars>>

CallCreateAddUserEvent ==
    /\ pc = "start"
    /\ \E user \in Users, role \in Roles :
          groupEvent' = [called |-> TRUE, from |-> "CreateAddUserEvent",
                               args |-> [user |-> user, role |-> role],
                               evt |-> CreateAddUserEvent(GroupID, user, role, 1)]
    /\ pc' = "event"
    /\ UNCHANGED <<groupParsed, isGroup, groupType>>
    /\ UNCHANGED <<flattenVars, canonVars, hashVars, neventVars, opVars, concVars,
                   txLogVars, groupIdVars, userOpEvVars, marshalVars, replyVars, transferVars>>

CallCreateRemoveUserEvent ==
    /\ pc = "start"
    /\ \E user \in Users, reason \in {"", "spam"} :
          groupEvent' = [called |-> TRUE, from |-> "CreateRemoveUserEvent",
                               args |-> [user |-> user, reason |-> reason],
                               evt |-> CreateRemoveUserEvent(GroupID, user, reason, 1)]
    /\ pc' = "event"
    /\ UNCHANGED <<groupParsed, isGroup, groupType>>
    /\ UNCHANGED <<flattenVars, canonVars, hashVars, neventVars, opVars, concVars,
                   txLogVars, groupIdVars, userOpEvVars, marshalVars, replyVars, transferVars>>

CallCreateEditMetadataEvent ==
    /\ pc = "start"
    /\ \E about \in Abouts, admins \in UserLists, moderators \in ModeratorLists, private \in BOOLEAN, closed \in BOOLEAN :
          groupEvent' = [called |-> TRUE, from |-> "CreateEditMetadataEvent",
                               args |-> [admins |-> admins, moderators |-> moderators, private |-> private, closed |-> closed],
                               evt |-> CreateEditMetadataEvent(GroupID, "Group", about, "", admins, moderators, private, closed, 1)]
    /\ pc' = "event"
    /\ UNCHANGED <<groupParsed, isGroup, groupType>>
    /\ UNCHANGED <<flattenVars, canonVars, hashVars, neventVars, opVars, concVars,
                   txLogVars, groupIdVars, userOpEvVars, marshalVars, replyVars, transferVars>>

CallCreateAddAdminEvent ==
    /\ pc = "start"
    /\ \E user \in Users :
          groupEvent' = [called |-> TRUE, from |-> "CreateAddAdminEvent",
                               args |-> [user |-> user],
                               evt |-> CreateAddAdminEvent(GroupID, user, 1)]
    /\ pc' = "event"
    /\ UNCHANGED <<groupParsed, isGroup, groupType>>
    /\ UNCHANGED <<flattenVars, canonVars, hashVars, neventVars, opVars, concVars,
                   txLogVars, groupIdVars, userOpEvVars, marshalVars, replyVars, transferVars>>

CallCreateRemoveAdminEvent ==
    /\ pc = "start"
    /\ \E user \in Users :
          groupEvent' = [called |-> TRUE, from |-> "CreateRemoveAdminEvent",
                               args |-> [user |-> user],
                               evt |-> CreateRemoveAdminEvent(GroupID, user, 1)]
    /\ pc' = "event"
    /\ UNCHANGED <<groupParsed, isGroup, groupType>>
    /\ UNCHANGED <<flattenVars, canonVars, hashVars, neventVars, opVars, concVars,
                   txLogVars, groupIdVars, userOpEvVars, marshalVars, replyVars, transferVars>>

CallCreateDeleteEventEvent ==
    /\ pc = "start"
    /\ \E eventID \in {"id-1", "id-2"} :
          groupEvent' = [called |-> TRUE, from |-> "CreateDeleteEventEvent",
                               args |-> [eventID |-> eventID],
                               evt |-> CreateDeleteEventEvent(GroupID, eventID, 1)]
    /\ pc' = "event"
    /\ UNCHANGED <<groupParsed, isGroup, groupType>>
    /\ UNCHANGED <<flattenVars, canonVars, hashVars, neventVars, opVars, concVars,
                   txLogVars, groupIdVars, userOpEvVars, marshalVars, replyVars, transferVars>>

CallCreateUpdateGroupStatusEvent ==
    /\ pc = "start"
    /\ \E status \in {"active", "group"} :
          groupEvent' = [called |-> TRUE, from |-> "CreateUpdateGroupStatusEvent",
                               args |-> [status |-> status],
                               evt |-> CreateUpdateGroupStatusEvent(GroupID, status, 1)]
    /\ pc' = "event"
    /\ UNCHANGED <<groupParsed, isGroup, groupType>>
    /\ UNCHANGED <<flattenVars, canonVars, hashVars, neventVars, opVars, concVars,
                   txLogVars, groupIdVars, userOpEvVars, marshalVars, replyVars, transferVars>>

CallCreateDeleteGroupEvent ==
    /\ pc = "start"
    /\ groupEvent' = [called |-> TRUE, from |-> "CreateDeleteGroupEvent",
                         args |-> [groupID |-> GroupID],
                         evt |-> CreateDeleteGroupEvent(GroupID, 1)]
    /\ pc' = "event"
    /\ UNCHANGED <<groupParsed, isGroup, groupType>>
    /\ UNCHANGED <<flattenVars, canonVars, hashVars, neventVars, opVars, concVars,
                   txLogVars, groupIdVars, userOpEvVars, marshalVars, replyVars, transferVars>>

CallCreateJoinRequestEvent ==
    /\ pc = "start"
    /\ \E message \in {"", "let me in"} :
          groupEvent' = [called |-> TRUE, from |-> "CreateJoinRequestEvent",
                               args |-> [message |-> message],
                               evt |-> CreateJoinRequestEvent(GroupID, message, 1)]
    /\ pc' = "event"
    /\ UNCHANGED <<groupParsed, isGroup, groupType>>
    /\ UNCHANGED <<flattenVars, canonVars, hashVars, neventVars, opVars, concVars,
                   txLogVars, groupIdVars, userOpEvVars, marshalVars, replyVars, transferVars>>

CallCreateGroupMetadataEvent ==
    /\ pc = "start"
    /\ \E private \in BOOLEAN, closed \in BOOLEAN :
          groupEvent' = [called |-> TRUE, from |-> "CreateGroupMetadataEvent",
                               args |-> [private |-> private, closed |-> closed],
                               evt |-> CreateGroupMetadataEvent(GroupID, GroupMetadataOf("Group", "", "", <<>>, <<>>, private, closed, 0), 1)]
    /\ pc' = "event"
    /\ UNCHANGED <<groupParsed, isGroup, groupType>>
    /\ UNCHANGED <<flattenVars, canonVars, hashVars, neventVars, opVars, concVars,
                   txLogVars, groupIdVars, userOpEvVars, marshalVars, replyVars, transferVars>>

CallCreateGroupNameEvent ==
    /\ pc = "start"
    /\ \E name \in {"", "Group"} :
          groupEvent' = [called |-> TRUE, from |-> "CreateGroupNameEvent",
                               args |-> [name |-> name],
                               evt |-> CreateGroupNameEvent(GroupID, name, 1)]
    /\ pc' = "event"
    /\ UNCHANGED <<groupParsed, isGroup, groupType>>
    /\ UNCHANGED <<flattenVars, canonVars, hashVars, neventVars, opVars, concVars,
                   txLogVars, groupIdVars, userOpEvVars, marshalVars, replyVars, transferVars>>

CallCreateGroupAboutEvent ==
    /\ pc = "start"
    /\ \E about \in Abouts :
          groupEvent' = [called |-> TRUE, from |-> "CreateGroupAboutEvent",
                               args |-> [about |-> about],
                               evt |-> CreateGroupAboutEvent(GroupID, about, 1)]
    /\ pc' = "event"
    /\ UNCHANGED <<groupParsed, isGroup, groupType>>
    /\ UNCHANGED <<flattenVars, canonVars, hashVars, neventVars, opVars, concVars,
                   txLogVars, groupIdVars, userOpEvVars, marshalVars, replyVars, transferVars>>

CallCreateGroupPictureEvent ==
    /\ pc = "start"
    /\ \E picture \in {"", "https://example.com/p.png"} :
          groupEvent' = [called |-> TRUE, from |-> "CreateGroupPictureEvent",
                               args |-> [picture |-> picture],
                               evt |-> CreateGroupPictureEvent(GroupID, picture, 1)]
    /\ pc' = "event"
    /\ UNCHANGED <<groupParsed, isGroup, groupType>>
    /\ UNCHANGED <<flattenVars, canonVars, hashVars, neventVars, opVars, concVars,
                   txLogVars, groupIdVars, userOpEvVars, marshalVars, replyVars, transferVars>>

CallCreateGroupAdminsEvent ==
    /\ pc = "start"
    /\ \E admins \in UserLists :
          groupEvent' = [called |-> TRUE, from |-> "CreateGroupAdminsEvent",
                               args |-> [admins |-> admins],
                               evt |-> CreateGroupAdminsEvent(GroupID, admins, 1)]
    /\ pc' = "event"
    /\ UNCHANGED <<groupParsed, isGroup, groupType>>
    /\ UNCHANGED <<flattenVars, canonVars, hashVars, neventVars, opVars, concVars,
                   txLogVars, groupIdVars, userOpEvVars, marshalVars, replyVars, transferVars>>

CallCreateGroupModeratorsEvent ==
    /\ pc = "start"
    /\ \E moderators \in UserLists :
          groupEvent' = [called |-> TRUE, from |-> "CreateGroupModeratorsEvent",
                               args |-> [moderators |-> moderators],
                               evt |-> CreateGroupModeratorsEvent(GroupID, moderators, 1)]
    /\ pc' = "event"
    /\ UNCHANGED <<groupParsed, isGroup, groupType>>
    /\ UNCHANGED <<flattenVars, canonVars, hashVars, neventVars, opVars, concVars,
                   txLogVars, groupIdVars, userOpEvVars, marshalVars, replyVars, transferVars>>

CallCreateGroupPrivateEvent ==
    /\ pc = "start"
    /\ \E private \in BOOLEAN :
          groupEvent' = [called |-> TRUE, from |-> "CreateGroupPrivateEvent",
                               args |-> [private |-> private],
                               evt |-> CreateGroupPrivateEvent(GroupID, private, 1)]
    /\ pc' = "event"
    /\ UNCHANGED <<groupParsed, isGroup, groupType>>
    /\ UNCHANGED <<flattenVars, canonVars, hashVars, neventVars, opVars, concVars,
                   txLogVars, groupIdVars, userOpEvVars, marshalVars, replyVars, transferVars>>

CallCreateGroupClosedEvent ==
    /\ pc = "start"
    /\ \E closed \in BOOLEAN :
          groupEvent' = [called |-> TRUE, from |-> "CreateGroupClosedEvent",
                               args |-> [closed |-> closed],
                               evt |-> CreateGroupClosedEvent(GroupID, closed, 1)]
    /\ pc' = "event"
    /\ UNCHANGED <<groupParsed, isGroup, groupType>>
    /\ UNCHANGED <<flattenVars, canonVars, hashVars, neventVars, opVars, concVars,
                   txLogVars, groupIdVars, userOpEvVars, marshalVars, replyVars, transferVars>>

CallCreateGroupCreatedEvent ==
    /\ pc = "start"
    /\ \E createdAt \in {0, 2} :
          groupEvent' = [called |-> TRUE, from |-> "CreateGroupCreatedEvent",
                               args |-> [createdAt |-> createdAt],
                               evt |-> CreateGroupCreatedEvent(GroupID, createdAt, 1)]
    /\ pc' = "event"
    /\ UNCHANGED <<groupParsed, isGroup, groupType>>
    /\ UNCHANGED <<flattenVars, canonVars, hashVars, neventVars, opVars, concVars,
                   txLogVars, groupIdVars, userOpEvVars, marshalVars, replyVars, transferVars>>

CallCreateGroupUpdatedEvent ==
    /\ pc = "start"
    /\ \E updatedAt \in {0, 2} :
          groupEvent' = [called |-> TRUE, from |-> "CreateGroupUpdatedEvent",
                               args |-> [updatedAt |-> updatedAt],
                               evt |-> CreateGroupUpdatedEvent(GroupID, updatedAt, 1)]
    /\ pc' = "event"
    /\ UNCHANGED <<groupParsed, isGroup, groupType>>
    /\ UNCHANGED <<flattenVars, canonVars, hashVars, neventVars, opVars, concVars,
                   txLogVars, groupIdVars, userOpEvVars, marshalVars, replyVars, transferVars>>

\* an event of some kind comes from a relay, its content empty
ReceiveGroupEvent ==
    /\ pc = "start"
    /\ \E kind \in ReceivedKinds :
          groupEvent' = [called |-> TRUE, from |-> "relay", args |-> [kind |-> kind],
                         evt |-> GroupEventOf(kind, <<>>, JText(""), 0)]
    /\ pc' = "event"
    /\ UNCHANGED <<groupParsed, isGroup, groupType>>
    /\ UNCHANGED <<flattenVars, canonVars, hashVars, neventVars, opVars, concVars,
                   txLogVars, groupIdVars, userOpEvVars, marshalVars, replyVars, transferVars>>

CallParseGroupEvent ==
    /\ pc = "event"
    /\ groupParsed = NotCalled
    /\ groupParsed' = [called |-> TRUE, parser |-> "ParseGroupEvent", kind |-> KindGroupCreate,
                      res |-> ParseGroupEvent(groupEvent.evt)]
    /\ UNCHANGED <<pc, groupEvent, isGroup, groupType>>
    /\ UNCHANGED <<flattenVars, canonVars, hashVars, neventVars, opVars, concVars,
                   txLogVars, groupIdVars, userOpEvVars, marshalVars, replyVars, transferVars>>

CallParseEditMetadataEvent ==
    /\ pc = "event"
    /\ groupParsed = NotCalled
    /\ groupParsed' = [called |-> TRUE, parser |-> "ParseEditMetadataEvent", kind |-> KindGroupEditMetadata,
                      res |-> ParseEditMetadataEvent(groupEvent.evt)]
    /\ UNCHANGED <<pc, groupEvent, isGroup, groupType>>
    /\ UNCHANGED <<flattenVars, canonVars, hashVars, neventVars, opVars, concVars,
                   txLogVars, groupIdVars, userOpEvVars, marshalVars, replyVars, transferVars>>

CallParseAddUserEvent ==
    /\ pc = "event"
    /\ groupParsed = NotCalled
    /\ groupParsed' = [called |-> TRUE, parser |-> "ParseAddUserEvent", kind |-> KindGroupAddUser,
                      res |-> ParseAddUserEvent(groupEvent.evt)]
    /\ UNCHANGED <<pc, groupEvent, isGroup, groupType>>
    /\ UNCHANGED <<flattenVars, canonVars, hashVars, neventVars, opVars, concVars,
                   txLogVars, groupIdVars, userOpEvVars, marshalVars, replyVars, transferVars>>

CallParseRemoveUserEvent ==
    /\ pc = "event"
    /\ groupParsed = NotCalled
    /\ groupParsed' = [called |-> TRUE, parser |-> "ParseRemoveUserEvent", kind |-> KindGroupRemoveUser,
                      res |-> ParseRemoveUserEvent(groupEvent.evt)]
    /\ UNCHANGED <<pc, groupEvent, isGroup, groupType>>
    /\ UNCHANGED <<flattenVars, canonVars, hashVars, neventVars, opVars, concVars,
                   txLogVars, groupIdVars, userOpEvVars, marshalVars, replyVars, transferVars>>

CallParseGroupMetadataEvent ==
    /\ pc = "event"
    /\ groupParsed = NotCalled
    /\ groupParsed' = [called |-> TRUE, parser |-> "ParseGroupMetadataEvent", kind |-> KindGroupMetadata,
                      res |-> ParseGroupMetadataEvent(groupEvent.evt)]
    /\ UNCHANGED <<pc, groupEvent, isGroup, groupType>>
    /\ UNCHANGED <<flattenVars, canonVars, hashVars, neventVars, opVars, concVars,
                   txLogVars, groupIdVars, userOpEvVars, marshalVars, replyVars, transferVars>>

CallParseGroupNameEvent ==
    /\ pc = "event"
    /\ groupParsed = NotCalled
    /\ groupParsed' = [called |-> TRUE, parser |-> "ParseGroupNameEvent", kind |-> KindGroupName,
                      res |-> ParseGroupNameEvent(groupEvent.evt)]
    /\ UNCHANGED <<pc, groupEvent, isGroup, groupType>>
    /\ UNCHANGED <<flattenVars, canonVars, hashVars, neventVars, opVars, concVars,
                   txLogVars, groupIdVars, userOpEvVars, marshalVars, replyVars, transferVars>>

CallParseGroupAboutEvent ==
    /\ pc = "event"
    /\ groupParsed = NotCalled
    /\ groupParsed' = [called |-> TRUE, parser |-> "ParseGroupAboutEvent", kind |-> KindGroupAbout,
                      res |-> ParseGroupAboutEvent(groupEvent.evt)]
    /\ UNCHANGED <<pc, groupEvent, isGroup, groupType>>
    /\ UNCHANGED <<flattenVars, canonVars, hashVars, neventVars, opVars, concVars,
                   txLogVars, groupIdVars, userOpEvVars, marshalVars, replyVars, transferVars>>

CallParseGroupPictureEvent ==
    /\ pc = "event"
    /\ groupParsed = NotCalled
    /\ groupParsed' = [called |-> TRUE, parser |-> "ParseGroupPictureEvent", kind |-> KindGroupPicture,
                      res |-> ParseGroupPictureEvent(groupEvent.evt)]
    /\ UNCHANGED <<pc, groupEvent, isGroup, groupType>>
    /\ UNCHANGED <<flattenVars, canonVars, hashVars, neventVars, opVars, concVars,
                   txLogVars, groupIdVars, userOpEvVars, marshalVars, replyVars, transferVars>>

CallParseGroupAdminsEvent ==
    /\ pc = "event"
    /\ groupParsed = NotCalled
    /\ groupParsed' = [called |-> TRUE, parser |-> "ParseGroupAdminsEvent", kind |-> KindGroupAdmins,
                      res |-> ParseGroupAdminsEvent(groupEvent.evt)]
    /\ UNCHANGED <<pc, groupEvent, isGroup, groupType>>
    /\ UNCHANGED <<flattenVars, canonVars, hashVars, neventVars, opVars, concVars,
                   txLogVars, groupIdVars, userOpEvVars, marshalVars, replyVars, transferVars>>

CallParseGroupModeratorsEvent ==
    /\ pc = "event"
    /\ groupParsed = NotCalled
    /\ groupParsed' = [called |-> TRUE, parser |-> "ParseGroupModeratorsEvent", kind |-> KindGroupModerators,
                      res |-> ParseGroupModeratorsEvent(groupEvent.evt)]
    /\ UNCHANGED <<pc, groupEvent, isGroup, groupType>>
    /\ UNCHANGED <<flattenVars, canonVars, hashVars, neventVars, opVars, concVars,
                   txLogVars, groupIdVars, userOpEvVars, marshalVars, replyVars, transferVars>>

CallParseGroupPrivateEvent ==
    /\ pc = "event"
    /\ groupParsed = NotCalled
    /\ groupParsed' = [called |-> TRUE, parser |-> "ParseGroupPrivateEvent", kind |-> KindGroupPrivate,
                      res |-> ParseGroupPrivateEvent(groupEvent.evt)]
    /\ UNCHANGED <<pc, groupEvent, isGroup, groupType>>
    /\ UNCHANGED <<flattenVars, canonVars, hashVars, neventVars, opVars, concVars,
                   txLogVars, groupIdVars, userOpEvVars, marshalVars, replyVars, transferVars>>

CallParseGroupClosedEvent ==
    /\ pc = "event"
    /\ groupParsed = NotCalled
    /\ groupParsed' = [called |-> TRUE, parser |-> "ParseGroupClosedEvent", kind |-> KindGroupClosed,
                      res |-> ParseGroupClosedEvent(groupEvent.evt)]
    /\ UNCHANGED <<pc, groupEvent, isGroup, groupType>>
    /\ UNCHANGED <<flattenVars, canonVars, hashVars, neventVars, opVars, concVars,
                   txLogVars, groupIdVars, userOpEvVars, marshalVars, replyVars, transferVars>>

CallParseGroupCreatedEvent ==
    /\ pc = "event"
    /\ groupParsed = NotCalled
    /\ groupParsed' = [called |-> TRUE, parser |-> "ParseGroupCreatedEvent", kind |-> KindGroupCreated,
                      res |-> ParseGroupCreatedEvent(groupEvent.evt)]
    /\ UNCHANGED <<pc, groupEvent, isGroup, groupType>>
    /\ UNCHANGED <<flattenVars, canonVars, hashVars, neventVars, opVars, concVars,
                   txLogVars, groupIdVars, userOpEvVars, marshalVars, replyVars, transferVars>>

CallParseGroupUpdatedEvent ==
    /\ pc = "event"
    /\ groupParsed = NotCalled
    /\ groupParsed' = [called |-> TRUE, parser |-> "ParseGroupUpdatedEvent", kind |-> KindGroupUpdated,
                      res |-> ParseGroupUpdatedEvent(groupEvent.evt)]
    /\ UNCHANGED <<pc, groupEvent, isGroup, groupType>>
    /\ UNCHANGED <<flattenVars, canonVars, hashVars, neventVars, opVars, concVars,
                   txLogVars, groupIdVars, userOpEvVars, marshalVars, replyVars, transferVars>>

CallIsGroupEvent ==
    /\ pc = "event"
    /\ isGroup = NotCalled
    /\ isGroup' = [called |-> TRUE, res |-> IsGroupEvent(groupEvent.evt)]
    /\ UNCHANGED <<pc, groupEvent, groupParsed, groupType>>
    /\ UNCHANGED <<flattenVars, canonVars, hashVars, neventVars, opVars, concVars,
                   txLogVars, groupIdVars, userOpEvVars, marshalVars, replyVars, transferVars>>

CallGetEventTypeFromGroupEvent ==
    /\ pc = "event"
    /\ groupType = NotCalled
    /\ groupType' = [called |-> TRUE, res |-> GetEventTypeFromGroupEvent(groupEvent.evt)]
    /\ UNCHANGED <<pc, groupEvent, groupParsed, isGroup>>
    /\ UNCHANGED <<flattenVars, canonVars, hashVars, neventVars, opVars, concVars,
                   txLogVars, groupIdVars, userOpEvVars, marshalVars, replyVars, transferVars>>

GroupEvNext ==
    \/ CallCreateGroupEvent
    \/ CallCreateAddUserEvent
    \/ CallCreateRemoveUserEvent
    \/ CallCreateEditMetadataEvent
    \/ CallCreateAddAdminEvent
    \/ CallCreateRemoveAdminEvent
    \/ CallCreateDeleteEventEvent
    \/ CallCreateUpdateGroupStatusEvent
    \/ CallCreateDeleteGroupEvent
    \/ CallCreateJoinRequestEvent
    \/ CallCreateGroupMetadataEvent
    \/ CallCreateGroupNameEvent
    \/ CallCreateGroupAboutEvent
    \/ CallCreateGroupPictureEvent
    \/ CallCreateGroupAdminsEvent
    \/ CallCreateGroupModeratorsEvent
    \/ CallCreateGroupPrivateEvent
    \/ CallCreateGroupClosedEvent
    \/ CallCreateGroupCreatedEvent
    \/ CallCreateGroupUpdatedEvent
    \/ ReceiveGroupEvent
    \/ CallParseGroupEvent
    \/ CallParseEditMetadataEvent
    \/ CallParseAddUserEvent
    \/ CallParseRemoveUserEvent
    \/ CallParseGroupMetadataEvent
    \/ CallParseGroupNameEvent
    \/ CallParseGroupAboutEvent
    \/ CallParseGroupPictureEvent
    \/ CallParseGroupAdminsEvent
    \/ CallParseGroupModeratorsEvent
    \/ CallParseGroupPrivateEvent
    \/ CallParseGroupClosedEvent
    \/ CallParseGroupCreatedEvent
    \/ CallParseGroupUpdatedEvent
    \/ CallIsGroupEvent
    \/ CallGetEventTypeFromGroupEvent

SpecGroupEvent == GroupEvInit /\ [][GroupEvNext]_vars

\* the constructors that have a Parse function, each with its own
OwnParser ==
    { <<"CreateGroupEvent", "ParseGroupEvent">>,
      <<"CreateEditMetadataEvent", "ParseEditMetadataEvent">>,
      <<"CreateAddUserEvent", "ParseAddUserEvent">>,
      <<"CreateRemoveUserEvent", "ParseRemoveUserEvent">>,
      <<"CreateGroupMetadataEvent", "ParseGroupMetadataEvent">>,
      <<"CreateGroupNameEvent", "ParseGroupNameEvent">>,
      <<"CreateGroupAboutEvent", "ParseGroupAboutEvent">>,
      <<"CreateGroupPictureEvent", "ParseGroupPictureEvent">>,
      <<"CreateGroupAdminsEvent", "ParseGroupAdminsEvent">>,
      <<"CreateGroupModeratorsEvent", "ParseGroupModeratorsEvent">>,
      <<"CreateGroupPrivateEvent", "ParseGroupPrivateEvent">>,
      <<"CreateGroupClosedEvent", "ParseGroupClosedEvent">>,
      <<"CreateGroupCreatedEvent", "ParseGroupCreatedEvent">>,
      <<"CreateGroupUpdatedEvent", "ParseGroupUpdatedEvent">> }

\* kinds around the two groups of constants
KindRange == (8990..9030) \cup (38990..39020) \cup ReceivedKinds

\* a constructor of this package returned the event at hand
Constructed == groupEvent.called /\ groupEvent.from # "relay"

\* C28: for every kind, IsGroupEvent is true exactly when
\* GetEventTypeFromGroupEvent is not "unknown"; every event a constructor
\* returned satisfies IsGroupEvent, is read without error by the Parse
\* function of its own kind and gets the wrong-kind error from every other
\* Parse function
C28_GroupKindClassification ==
    /\ \A k \in KindRange :
          IsGroupEvent([Kind |-> k]) <=> GetEventTypeFromGroupEvent([Kind |-> k]) # "unknown"
    /\ (isGroup.called /\ groupType.called) => (isGroup.res <=> groupType.res # "unknown")
    /\ (Constructed /\ isGroup.called) => isGroup.res
    /\ (Constructed /\ groupParsed.called)
          => IF <<groupEvent.from, groupParsed.parser>> \in OwnParser
             THEN groupParsed.res.err = "none"
             ELSE groupParsed.res.err = "wrong kind"

\* a join request was classified and refused by a Parse function, and ...
C28_Witness ==
    /\ Constructed
    /\ groupEvent.from = "CreateJoinRequestEvent"
    /\ isGroup.called /\ isGroup.res
    /\ groupType.called /\ groupType.res = "join_request"
    /\ groupParsed.called /\ groupParsed.res.err = "wrong kind"

\* ... a group event was read by its own Parse function
C28_WitnessOwnParser ==
    /\ Constructed
    /\ groupEvent.from = "CreateGroupEvent"
    /\ groupParsed.called /\ groupParsed.parser = "ParseGroupEvent"
    /\ groupParsed.res.err = "none"
    /\ isGroup.called /\ groupType.called

\* the event at hand carries this tag
CarriesTag(tag) == \E i \in 1..Len(groupEvent.evt.Tags) : groupEvent.evt.Tags[i] = tag

\* no tag of the event at hand appears twice
NoTagTwice ==
    \A i, n \in 1..Len(groupEvent.evt.Tags) :
        i # n => groupEvent.evt.Tags[i] # groupEvent.evt.Tags[n]

\* C29: the event of CreateGroupPrivateEvent carries ("t", "private")
\* exactly when private is true, the event of CreateGroupClosedEvent carries
\* ("t", "closed") exactly when closed is true, the events of
\* CreateGroupEvent and CreateEditMetadataEvent carry each exactly when its
\* flag is true, and no tag appears twice in one of these events
C29_FlagTagsMirrorFlag ==
    /\ (groupEvent.called /\ groupEvent.from = "CreateGroupPrivateEvent")
          => /\ CarriesTag(<<"t", "private">>) <=> groupEvent.args.private
             /\ NoTagTwice
    /\ (groupEvent.called /\ groupEvent.from = "CreateGroupClosedEvent")
          => /\ CarriesTag(<<"t", "closed">>) <=> groupEvent.args.closed
             /\ NoTagTwice
    /\ (groupEvent.called
          /\ groupEvent.from \in {"CreateGroupEvent", "CreateEditMetadataEvent"})
          => /\ CarriesTag(<<"t", "private">>) <=> groupEvent.args.private
             /\ CarriesTag(<<"t", "closed">>) <=> groupEvent.args.closed
             /\ NoTagTwice

\* the part about CreateGroupEvent and CreateEditMetadataEvent: the flag tags
\* mirror the flags, and no tag appears twice when no user is listed twice
\* in one role
C29_MetadataFlagTags ==
    (groupEvent.called
       /\ groupEvent.from \in {"CreateGroupEvent", "CreateEditMetadataEvent"})
       => /\ CarriesTag(<<"t", "private">>) <=> groupEvent.args.private
          /\ CarriesTag(<<"t", "closed">>) <=> groupEvent.args.closed
          /\ (\A i, n \in 1..Len(groupEvent.args.admins) :
                 i # n => groupEvent.args.admins[i] # groupEvent.args.admins[n])
                => NoTagTwice

-----------------------------------------------------------------------------
(* Transfer events (package event, CreateTxTransferEvent).                   *)

\* "tx_transfer"
StrTxTransfer == <<116, 120, 95, 116, 114, 97, 110, 115, 102, 101, 114>>
\* "P"
StrUpperP == <<80>>
\* "tx_transfer_created"
EventTypeTxTransferCreated == <<116, 120, 95, 116, 114, 97, 110, 115, 102, 101, 114, 95, 99, 114, 101, 97, 116, 101, 100>>
\* "This is an evm transaction log for topic "
StrAltTransfer == <<84, 104, 105, 115, 32, 105, 115, 32, 97, 110, 32, 101, 118, 109, 32, 116, 114, 97, 110, 115, 97, 99, 116, 105, 111, 110, 32, 108, 111, 103, 32, 102, 111, 114, 32, 116, 111, 112, 105, 99, 32>>
\* "\n Data:"
StrAltData == <<10, 32, 68, 97, 116, 97, 58>>
\* "\n "
StrAltLine == <<10, 32>>
\* ": "
StrColon == <<58, 32>>
\* "0x2222222222222222222222222222222222222222"
Addr2 == <<48, 120, 50, 50, 50, 50, 50, 50, 50, 50, 50, 50, 50, 50, 50, 50, 50, 50, 50, 50, 50, 50, 50, 50, 50, 50, 50, 50, 50, 50, 50, 50, 50, 50, 50, 50, 50, 50, 50, 50, 50, 50>>

KindTxTransfer == 9735

\* neth.TopicERC20Transfer, of which only the comparison with log.Topic is
\* used
TopicERC20Transfer == TopicHash

\* the number of calls of CreateTxTransferEvent for one log
MaxTransferCalls == 2

\* data[key].(string): the text and whether the entry is a string
StringEntry(m, key) ==
    IF key \in DOMAIN m /\ m[key].t = "string"
    THEN [ok |-> TRUE, str |-> m[key].str]
    ELSE [ok |-> FALSE, str |-> <<>>]

RECURSIVE AltLines(_)
\* the lines the loop over dataTags adds to alt
AltLines(dataTags) ==
    IF dataTags = <<>> THEN <<>>
    ELSE StrAltLine \o dataTags[1][1] \o StrColon \o dataTags[1][2]
           \o AltLines(Tail(dataTags))

\* the text of the "alt" tag
AltText(l, dataTags) ==
    StrAltTransfer \o l.Topic \o StrAltOnChain \o l.ChainID
      \o (IF Len(dataTags) > 0 THEN StrAltData ELSE <<>>)
      \o AltLines(dataTags)

\* CreateTxTransferEvent(log): the results it can return, one for every
\* order flattenDataToTags can return the data tags in
CreateTxTransferEvent(l) ==
    IF l.Topic # TopicERC20Transfer THEN {Failed}
    ELSE IF MarshalLog(l).err THEN {Failed}
    ELSE IF l.Data # NilData
            /\ (\/ Unmarshal(l.Data).err
                \/ ~StringEntry(Unmarshal(l.Data).m, StrFrom).ok
                \/ ~StringEntry(Unmarshal(l.Data).m, StrTo).ok
                \/ ~StringEntry(Unmarshal(l.Data).m, StrValue).ok)
    THEN {Failed}
    ELSE {[err |-> FALSE, dataTags |-> dataTags,
           evt |-> [CreatedAt |-> l.CreatedAt.unix, Kind |-> KindTxTransfer,
                    Tags |-> <<<<StrD, l.Hash>>, <<StrT, StrTxTransfer>>,
                               <<StrNetwork, StrEvm>>, <<StrLayer, l.ChainID>>,
                               <<StrR, l.TxHash>>>>
                             \o (IF l.Data = NilData THEN <<>>
                                 ELSE LET m == Unmarshal(l.Data).m
                                      IN  <<<<StrUpperP, StringEntry(m, StrFrom).str>>,
                                            <<StrP, StringEntry(m, StrTo).str>>,
                                            <<StrAmount, StringEntry(m, StrValue).str>>>>)
                             \o <<<<StrT, l.Topic>>, <<StrT, l.To>>>>
                             \o dataTags
                             \o <<<<StrAlt, AltText(l, dataTags)>>>>,
                    Content |-> MarshalTxLogEvent(
                                   [LogData |-> MarshalLog(l).doc,
                                    EventType |-> EventTypeTxTransferCreated,
                                    Tags |-> <<StrTxTransfer, StrEvm, l.ChainID>>])]] :
             dataTags \in LogDataTags(l)}

\* the data of a transfer, with and without a further entry, data without
\* "to", and bytes that are no JSON text
TransferData ==
    LET transfer == <<<<StrFrom, JStr(Addr1)>>, <<StrTo, JStr(Addr2)>>,
                      <<StrValue, JStr(Str5)>>>>
    IN  {NilData, JObj(transfer),
         JObj(transfer \o <<<<StrSymbol, JStr(StrTEST)>>>>),
         JObj(<<<<StrFrom, JStr(Addr1)>>, <<StrValue, JStr(Str5)>>>>),
         JInvalid(<<123, 34>>)}

TransferLogs ==
    [Hash : {Str0x1234}, TxHash : {Str0x12}, ChainID : {Str1, Str5},
     Topic : {TopicERC20Transfer, Str0x34},
     CreatedAt : {Epoch1}, UpdatedAt : {Epoch1}, Nonce : {5},
     Sender : {Addr1}, To : {Addr2}, Value : {BigNat(<<5>>)},
     Data : TransferData]

TransferInit ==
    /\ pc = "start"
    /\ transferLog \in TransferLogs
    /\ transfers = <<>>
    /\ FlattenUnused /\ CanonUnused /\ HashUnused /\ NeventUnused /\ OpUnused
    /\ ConcUnused /\ TxLogUnused /\ GroupIdUnused /\ UserOpEvUnused /\ MarshalCallUnused
    /\ ReplyUnused /\ GroupEvUnused

CallCreateTxTransferEvent ==
    /\ Len(transfers) < MaxTransferCalls
    /\ \E res \in CreateTxTransferEvent(transferLog) :
          transfers' = Append(transfers, res)
    /\ UNCHANGED <<pc, transferLog>>
    /\ UNCHANGED <<flattenVars, canonVars, hashVars, neventVars, opVars, concVars,
                   txLogVars, groupIdVars, userOpEvVars, marshalVars, replyVars,
                   groupEvVars>>

TransferNext == CallCreateTxTransferEvent

SpecTransfer == TransferInit /\ [][TransferNext]_vars

\* how often a tag is in a list of tags
Occurrences(list, tag) == Cardinality({i \in 1..Len(list) : list[i] = tag})

\* the two lists hold the same tags the same number of times
SameMultiset(a, b) ==
    /\ Len(a) = Len(b)
    /\ \A i \in 1..Len(a) : Occurrences(a, a[i]) = Occurrences(b, a[i])

\* the text of the "alt" tag of an event
AltOf(evt) == evt.Tags[CHOOSE i \in 1..Len(evt.Tags) : evt.Tags[i][1] = StrAlt][2]

\* C30: all calls for one log return the same multiset of data tags, each
\* of two strings, and what the constructor derives from them, the text of
\* the "alt" tag, is the same on every call
C30_FlattenSameOnEveryCall ==
    \A i, n \in 1..Len(transfers) :
        (~transfers[i].err /\ ~transfers[n].err)
            => /\ SameMultiset(transfers[i].dataTags, transfers[n].dataTags)
               /\ \A k \in 1..Len(transfers[i].dataTags) :
                     Len(transfers[i].dataTags[k]) = 2
               /\ AltOf(transfers[i].evt) = AltOf(transfers[n].evt)

\* the part about the tags: the same multiset of data tags on every call,
\* each tag of two strings
C30_SameMultisetOfTags ==
    \A i, n \in 1..Len(transfers) :
        (~transfers[i].err /\ ~transfers[n].err)
            => /\ SameMultiset(transfers[i].dataTags, transfers[n].dataTags)
               /\ \A k \in 1..Len(transfers[i].dataTags) :
                     Len(transfers[i].dataTags[k]) = 2

=============================================================================
